---------------------------- MODULE Spec2Model ----------------------------
(***************************************************************************)
(* Ficha 01: the parametric curves (Bezier, B-spline) of Questao 01 and    *)
(* Questao 02, the revolution surface, and the Questao 02 application      *)
(* that builds a surface from a profile drawn on a canvas.                 *)
(*                                                                         *)
(* JavaScript Numbers are modelled as exact rationals                      *)
(* [n |-> numerator, d |-> denominator] in lowest terms, d > 0; the result *)
(* of a division by zero (Infinity or NaN) is the single value NotFinite.  *)
(* Every input is drawn from sets on which the arithmetic of the code is   *)
(* exact in binary floating point or is the real-number reading of it      *)
(* (the cosine and sine of whole quarter turns, the square root that       *)
(* normalises a normal).                                                   *)
(*                                                                         *)
(* The specifications share the variables: BezierSpec, SplineSpec,         *)
(* PickSpec and PipelineSpec apply functions to bounded inputs,            *)
(* SurfaceSpec and ManagerSpec run sequences of method calls on one        *)
(* RevolutionSurface and one ControlPointsManager, Q1Spec and Q2Spec run   *)
(* sequences of events of the two applications, TabsSpec runs the events   *)
(* of Questao 01 over both of its tabs, and RendererSpec runs sequences of *)
(* calls on the Renderer3D of Questao 02.                                  *)
(***************************************************************************)
EXTENDS Integers, Sequences, FiniteSets, TLC

VARIABLES
    points,   \* the control points: the list handed to the curve functions,
              \* and in Q2Spec the points of state.profilePoints
    t,        \* curve parameter handed to the curve functions
    call,     \* name of the function or method applied last ("none" at start)
    args,     \* the other arguments of that call
    ret,      \* the value it returned: a point {x, y}, Null, or a record
              \* holding the returned array under the name of its kind
    surface,  \* a RevolutionSurface: vertices, faces, normals, parameters;
              \* in Q2Spec it is state.currentSurface
    state     \* the other fields of the state object of Questao 02; the
              \* state object of Questao 01 in Q1Spec and TabsSpec, the
              \* manager in ManagerSpec, the renderer in RendererSpec

vars == <<points, t, call, args, ret, surface, state>>

---------------------------------------------------------------------------
(* Bounds of the model *)

\* control-point lists have at most MaxPoints points
MaxPoints == 3
\* curve parameters are the multiples of 1/TDen
TDen == 4
\* generateBezierCurve is called with 1..MaxSteps steps
MaxSteps == 2
\* B-splines have degree 1..MaxDegree
MaxDegree == 2

---------------------------------------------------------------------------
(* JavaScript Number arithmetic, as exact rationals *)

Abs(k) == IF k < 0 THEN -k ELSE k

RECURSIVE GCD(_, _)
GCD(a, b) == IF b = 0 THEN a ELSE GCD(b, a % b)

NotFinite == [n |-> 0, d |-> 0]

Rat(num, den) ==
    IF den = 0 THEN NotFinite
    ELSE LET g == GCD(Abs(num), Abs(den))
             s == IF den < 0 THEN -1 ELSE 1
         IN  [n |-> (s * num) \div g, d |-> (s * den) \div g]

Num(k) == [n |-> k, d |-> 1]
Zero == Num(0)
One == Num(1)

IsFinite(a) == a.d # 0

Add(a, b) ==
    IF ~IsFinite(a) \/ ~IsFinite(b) THEN NotFinite
    ELSE IF a.d = 1 /\ b.d = 1 THEN [n |-> a.n + b.n, d |-> 1]
    ELSE Rat(a.n * b.d + b.n * a.d, a.d * b.d)

Neg(a) == [n |-> -a.n, d |-> a.d]

Sub(a, b) == Add(a, Neg(b))

Mul(a, b) ==
    IF ~IsFinite(a) \/ ~IsFinite(b) THEN NotFinite
    ELSE IF a.d = 1 /\ b.d = 1 THEN [n |-> a.n * b.n, d |-> 1]
    ELSE Rat(a.n * b.n, a.d * b.d)

Div(a, b) ==
    IF ~IsFinite(a) \/ ~IsFinite(b) THEN NotFinite
    ELSE Rat(a.n * b.d, a.d * b.n)

\* a < b; false when either side is not finite, as a comparison with NaN
Lt(a, b) == IsFinite(a) /\ IsFinite(b) /\ a.n * b.d < b.n * a.d

Le(a, b) == IsFinite(a) /\ IsFinite(b) /\ a.n * b.d <= b.n * a.d

\* Math.max, Math.min
Max(a, b) == IF ~IsFinite(a) \/ ~IsFinite(b) THEN NotFinite ELSE IF Lt(a, b) THEN b ELSE a

Min(a, b) == IF ~IsFinite(a) \/ ~IsFinite(b) THEN NotFinite ELSE IF Lt(b, a) THEN b ELSE a

\* Math.abs of a Number
MathAbs(a) == IF Lt(a, Zero) THEN Neg(a) ELSE a

\* the value returned where the code returns null
Null == [null |-> TRUE]

\* (1 - t) * a + t * b
Lerp(a, b, tt) == Add(Mul(Sub(One, tt), a), Mul(tt, b))

---------------------------------------------------------------------------
(* Questao 01, bezier.js *)

\* HomogeneousRound with the weights of a pair added instead of interpolated
HomogeneousRoundSummedWeight(cur, tt) ==
    [i \in 1..(Len(cur) - 1) |->
        [wx |-> Lerp(cur[i].wx, cur[i + 1].wx, tt),
         wy |-> Lerp(cur[i].wy, cur[i + 1].wy, tt),
         w  |-> Add(cur[i].w, cur[i + 1].w)]]

\* one round of the while loop of deCasteljau, in homogeneous coordinates
HomogeneousRound(cur, tt) ==
    [i \in 1..(Len(cur) - 1) |->
        [wx |-> Lerp(cur[i].wx, cur[i + 1].wx, tt),
         wy |-> Lerp(cur[i].wy, cur[i + 1].wy, tt),
         w  |-> Lerp(cur[i].w, cur[i + 1].w, tt)]]

RECURSIVE HomogeneousReduce(_, _)
HomogeneousReduce(cur, tt) ==
    IF Len(cur) > 1 THEN HomogeneousReduce(HomogeneousRound(cur, tt), tt) ELSE cur

\* p.weight || 1
WeightOrOne(p) == IF p.weight = Zero THEN One ELSE p.weight

\* deCasteljau without the final perspective division
deCasteljauNoDivision(pts, tt) ==
    IF Len(pts) = 0 THEN Null
    ELSE IF Len(pts) = 1 THEN [x |-> pts[1].x, y |-> pts[1].y]
    ELSE LET lifted == [i \in 1..Len(pts) |->
                           [wx |-> Mul(pts[i].x, WeightOrOne(pts[i])),
                            wy |-> Mul(pts[i].y, WeightOrOne(pts[i])),
                            w  |-> WeightOrOne(pts[i])]]
             final == HomogeneousReduce(lifted, tt)[1]
         IN  [x |-> final.wx, y |-> final.wy]

deCasteljau(pts, tt) ==
    IF Len(pts) = 0 THEN Null
    ELSE IF Len(pts) = 1 THEN [x |-> pts[1].x, y |-> pts[1].y]
    ELSE LET lifted == [i \in 1..Len(pts) |->
                           [wx |-> Mul(pts[i].x, WeightOrOne(pts[i])),
                            wy |-> Mul(pts[i].y, WeightOrOne(pts[i])),
                            w  |-> WeightOrOne(pts[i])]]
             final == HomogeneousReduce(lifted, tt)[1]
         IN  [x |-> Div(final.wx, final.w), y |-> Div(final.wy, final.w)]

\* one round of the while loop of deCasteljauSimple
SimpleRound(cur, tt) ==
    [i \in 1..(Len(cur) - 1) |->
        [x |-> Lerp(cur[i].x, cur[i + 1].x, tt),
         y |-> Lerp(cur[i].y, cur[i + 1].y, tt)]]

RECURSIVE SimpleReduce(_, _)
SimpleReduce(cur, tt) ==
    IF Len(cur) > 1 THEN SimpleReduce(SimpleRound(cur, tt), tt) ELSE cur

deCasteljauSimple(pts, tt) ==
    IF Len(pts) = 0 THEN Null
    ELSE IF Len(pts) = 1 THEN [x |-> pts[1].x, y |-> pts[1].y]
    ELSE LET final == SimpleReduce(pts, tt)[1]
         IN  [x |-> final.x, y |-> final.y]

\* controlPoints.some(p => p.weight !== undefined && p.weight !== 1)
hasWeights(pts) == \E i \in 1..Len(pts) : pts[i].weight # One

\* generateBezierCurve with the loop ending at i < steps
generateBezierCurveShort(pts, steps, useWeights) ==
    IF Len(pts) < 2 THEN <<>>
    ELSE [k \in 1..steps |->
             IF hasWeights(pts) /\ useWeights
             THEN deCasteljau(pts, Rat(k - 1, steps))
             ELSE deCasteljauSimple(pts, Rat(k - 1, steps))]

generateBezierCurve(pts, steps, useWeights) ==
    IF Len(pts) < 2 THEN <<>>
    ELSE [k \in 1..(steps + 1) |->
             IF hasWeights(pts) /\ useWeights
             THEN deCasteljau(pts, Rat(k - 1, steps))
             ELSE deCasteljauSimple(pts, Rat(k - 1, steps))]

\* elevateBezierDegree with alpha and 1 - alpha exchanged
elevateBezierDegreeSwapped(pts) ==
    IF Len(pts) < 2 THEN pts
    ELSE LET n == Len(pts) - 1
         IN  [k \in 1..(n + 2) |->
                 IF k = 1 THEN pts[1]
                 ELSE IF k = n + 2 THEN pts[n + 1]
                 ELSE LET i == k - 1
                          alpha == Rat(i, n + 1)
                      IN  [x |-> Add(Mul(Sub(One, alpha), pts[i].x), Mul(alpha, pts[i + 1].x)),
                           y |-> Add(Mul(Sub(One, alpha), pts[i].y), Mul(alpha, pts[i + 1].y)),
                           weight |-> pts[i + 1].weight]]

elevateBezierDegree(pts) ==
    IF Len(pts) < 2 THEN pts
    ELSE LET n == Len(pts) - 1
         IN  [k \in 1..(n + 2) |->
                 IF k = 1 THEN pts[1]
                 ELSE IF k = n + 2 THEN pts[n + 1]
                 ELSE LET i == k - 1
                          alpha == Rat(i, n + 1)
                      IN  [x |-> Add(Mul(alpha, pts[i].x), Mul(Sub(One, alpha), pts[i + 1].x)),
                           y |-> Add(Mul(alpha, pts[i].y), Mul(Sub(One, alpha), pts[i + 1].y)),
                           weight |-> pts[i + 1].weight]]

\* "if (points.length < 2) return points": the caller gets the array it
\* passed, not a new one
elevateReturnsArgument(pts) == Len(pts) < 2

\* one round of the while loop of splitBezier
SplitRound(cur, tt) ==
    [i \in 1..(Len(cur) - 1) |->
        [x |-> Lerp(cur[i].x, cur[i + 1].x, tt),
         y |-> Lerp(cur[i].y, cur[i + 1].y, tt),
         weight |-> cur[i].weight]]

\* the while loop of splitBezier and the unshift that follows it;
\* SplitPush is the end of one round, for its newPoints
RECURSIVE SplitLoop(_, _, _, _)
RECURSIVE SplitPush(_, _, _, _)
SplitLoop(cur, tt, left, right) ==
    IF Len(cur) > 1 THEN SplitPush(SplitRound(cur, tt), tt, left, right)
    ELSE [left |-> left, right |-> <<cur[1]>> \o right]

SplitPush(newPoints, tt, left, right) ==
    SplitLoop(newPoints, tt, Append(left, newPoints[1]),
              <<newPoints[Len(newPoints)]>> \o right)

splitBezier(pts, tt) ==
    IF Len(pts) = 0 THEN [left |-> <<>>, right |-> <<>>]
    ELSE SplitLoop(pts, tt, <<pts[1]>>, <<>>)

---------------------------------------------------------------------------
(* Questao 01, spline.js *)

\* knots[i] of a JavaScript array (0-based); undefined in arithmetic is NaN
At(arr, i) == IF i >= 0 /\ i < Len(arr) THEN arr[i + 1] ELSE NotFinite

\* Math.abs(a - b) < 1e-10: every number of the model is a multiple of 1/TDen
\* or of a product of such, so two of them are that close only when equal
Within1e10(a, b) == IsFinite(a) /\ IsFinite(b) /\ a = b

\* generateKnotVector without the clamping of the two ends
generateKnotVectorUnclamped(n, degree) == [k \in 1..(n + degree + 1) |-> Num(k - 1)]

generateKnotVector(n, degree) ==
    [k \in 1..(n + degree + 1) |->
        LET i == k - 1
        IN  IF i <= degree THEN Num(0)
            ELSE IF i >= n THEN Num(n - degree)
            ELSE Num(i - degree)]

RECURSIVE bSplineBasis(_, _, _, _)
bSplineBasis(i, degree, tt, knots) ==
    IF degree = 0
    THEN IF i = Len(knots) - degree - 2 /\ Within1e10(tt, At(knots, i + 1))
         THEN One
         ELSE IF Le(At(knots, i), tt) /\ Lt(tt, At(knots, i + 1)) THEN One ELSE Zero
    ELSE LET denomLeft == Sub(At(knots, i + degree), At(knots, i))
             left == IF denomLeft # Zero
                     THEN Mul(Div(Sub(tt, At(knots, i)), denomLeft),
                              bSplineBasis(i, degree - 1, tt, knots))
                     ELSE Zero
             denomRight == Sub(At(knots, i + degree + 1), At(knots, i + 1))
             right == IF denomRight # Zero
                      THEN Mul(Div(Sub(At(knots, i + degree + 1), tt), denomRight),
                               bSplineBasis(i + 1, degree - 1, tt, knots))
                      ELSE Zero
         IN  Add(left, right)

\* the accumulation x += basis * controlPoints[i].x over i = 0..upTo-1
RECURSIVE SumProducts(_, _, _)
SumProducts(basis, coords, upTo) ==
    IF upTo = 0 THEN Zero
    ELSE Add(SumProducts(basis, coords, upTo - 1), Mul(basis[upTo], coords[upTo]))

evaluateBSpline(controlPoints, tt, degree, knots) ==
    IF Len(controlPoints) = 0 THEN Null
    ELSE LET n == Len(controlPoints)
             tMin == At(knots, degree)
             tMax == At(knots, n)
             tClamped == Max(tMin, Min(tMax, tt))
             basis == [j \in 1..n |-> bSplineBasis(j - 1, degree, tClamped, knots)]
         IN  [x |-> SumProducts(basis, [j \in 1..n |-> controlPoints[j].x], n),
              y |-> SumProducts(basis, [j \in 1..n |-> controlPoints[j].y], n)]

\* for (let t = tMin; t <= tMax; t += step) of generateBSplineCurve
RECURSIVE BSplineLoop(_, _, _, _, _, _)
BSplineLoop(controlPoints, tt, step, tMax, degree, knots) ==
    IF Le(tt, tMax)
    THEN <<evaluateBSpline(controlPoints, tt, degree, knots)>>
             \o BSplineLoop(controlPoints, Add(tt, step), step, tMax, degree, knots)
    ELSE <<>>

generateBSplineCurve(controlPoints, degree, step) ==
    IF Len(controlPoints) < degree + 1 THEN <<>>
    ELSE LET n == Len(controlPoints)
             knots == generateKnotVector(n, degree)
             tMin == At(knots, degree)
             tMax == At(knots, n)
         IN  BSplineLoop(controlPoints, tMin, step, tMax, degree, knots)
                 \o <<evaluateBSpline(controlPoints, tMax, degree, knots)>>

\* the values the loop variable t takes in the three sampling loops
\* "for (let t = tMin; t <= tMax; t += step)", in the order of the samples
RECURSIVE ParamLoop(_, _, _)
ParamLoop(tt, step, tMax) ==
    IF Le(tt, tMax) THEN <<tt>> \o ParamLoop(Add(tt, step), step, tMax) ELSE <<>>

\* the parameter of every sample of a sampler: those of the loop, then the
\* end of the domain, at which the sample after the loop is taken
SampleParams(tMin, tMax, step) == ParamLoop(tMin, step, tMax) \o <<tMax>>

\* the parameters of the Questao 02 generateBSplineCurve, whose step is
\* (tMax - tMin) / resolution
DomainParams(knots, degree, n, resolution) ==
    SampleParams(At(knots, degree), At(knots, n),
                 Div(Sub(At(knots, n), At(knots, degree)), Num(resolution)))

\* the value of a call that threw (a property read on undefined)
Threw == [threw |-> "TypeError"]

\* the index k found by the while loop of insertKnot
RECURSIVE InsertionIndex(_, _, _)
InsertionIndex(knots, newKnot, k) ==
    IF k < Len(knots) - 1 /\ Lt(At(knots, k), newKnot)
    THEN InsertionIndex(knots, newKnot, k + 1)
    ELSE k

insertKnot(controlPoints, knots, degree, newKnot) ==
    LET n == Len(controlPoints)
        k == InsertionIndex(knots, newKnot, degree)
        blended(i) == i > k - degree - 1 /\ i <= k - 1
    IN  IF \E i \in 0..(n - 1) : blended(i) /\ i = 0
        THEN Threw
        ELSE [controlPoints |->
                 [j \in 1..n |->
                     LET i == j - 1
                     IN  IF ~blended(i) THEN controlPoints[j]
                         ELSE LET alpha == Div(Sub(newKnot, At(knots, i)),
                                               Sub(At(knots, i + degree), At(knots, i)))
                              IN  [x |-> Add(Mul(Sub(One, alpha), controlPoints[j - 1].x),
                                             Mul(alpha, controlPoints[j].x)),
                                   y |-> Add(Mul(Sub(One, alpha), controlPoints[j - 1].y),
                                             Mul(alpha, controlPoints[j].y))]],
              knots |-> SubSeq(knots, 1, k) \o <<newKnot>> \o SubSeq(knots, k + 1, Len(knots))]

---------------------------------------------------------------------------
(* Questao 02, curve2D.js *)

\* one round of the while loop of the Questao 02 deCasteljau
RoundQ2(cur, tt) ==
    [i \in 1..(Len(cur) - 1) |->
        [x |-> Lerp(cur[i].x, cur[i + 1].x, tt),
         y |-> Lerp(cur[i].y, cur[i + 1].y, tt)]]

RECURSIVE ReduceQ2(_, _)
ReduceQ2(cur, tt) ==
    IF Len(cur) > 1 THEN ReduceQ2(RoundQ2(cur, tt), tt) ELSE cur

deCasteljauQ2(controlPoints, tt) ==
    IF Len(controlPoints) = 0 THEN Null
    ELSE IF Len(controlPoints) = 1 THEN controlPoints[1]
    ELSE ReduceQ2([i \in 1..Len(controlPoints) |->
                      [x |-> controlPoints[i].x, y |-> controlPoints[i].y]], tt)[1]

\* for (let t = 0; t <= 1; t += step) of the Questao 02 generateBezierCurve
RECURSIVE BezierLoopQ2(_, _, _)
BezierLoopQ2(controlPoints, tt, step) ==
    IF Le(tt, One)
    THEN <<deCasteljauQ2(controlPoints, tt)>> \o BezierLoopQ2(controlPoints, Add(tt, step), step)
    ELSE <<>>

generateBezierCurveQ2(controlPoints, resolution) ==
    IF Len(controlPoints) < 2 THEN <<>>
    ELSE BezierLoopQ2(controlPoints, Zero, Rat(1, resolution))
             \o <<deCasteljauQ2(controlPoints, One)>>

generateKnotVectorQ2(n, degree) ==
    [k \in 1..(degree + 1) |-> Num(0)]
        \o [k \in 1..(n - degree - 1) |-> Num(k)]
        \o [k \in 1..(degree + 1) |-> Num(n - degree)]

RECURSIVE bSplineBasisQ2(_, _, _, _)
bSplineBasisQ2(i, degree, tt, knots) ==
    IF degree = 0
    THEN IF i = Len(knots) - degree - 2 /\ Within1e10(tt, At(knots, i + 1))
         THEN One
         ELSE IF Le(At(knots, i), tt) /\ Lt(tt, At(knots, i + 1)) THEN One ELSE Zero
    ELSE LET denomLeft == Sub(At(knots, i + degree), At(knots, i))
             left == IF denomLeft # Zero
                     THEN Mul(Div(Sub(tt, At(knots, i)), denomLeft),
                              bSplineBasisQ2(i, degree - 1, tt, knots))
                     ELSE Zero
             denomRight == Sub(At(knots, i + degree + 1), At(knots, i + 1))
             right == IF denomRight # Zero
                      THEN Mul(Div(Sub(At(knots, i + degree + 1), tt), denomRight),
                               bSplineBasisQ2(i + 1, degree - 1, tt, knots))
                      ELSE Zero
         IN  Add(left, right)

evaluateBSplineQ2(controlPoints, tt, degree, knots) ==
    IF Len(controlPoints) = 0 THEN Null
    ELSE LET n == Len(controlPoints)
             tMin == At(knots, degree)
             tMax == At(knots, n)
             tClamped == Max(tMin, Min(tMax, tt))
             basis == [j \in 1..n |-> bSplineBasisQ2(j - 1, degree, tClamped, knots)]
         IN  [x |-> SumProducts(basis, [j \in 1..n |-> controlPoints[j].x], n),
              y |-> SumProducts(basis, [j \in 1..n |-> controlPoints[j].y], n)]

\* for (let t = tMin; t <= tMax; t += step) of the Questao 02 generateBSplineCurve
RECURSIVE BSplineLoopQ2(_, _, _, _, _, _)
BSplineLoopQ2(controlPoints, tt, step, tMax, degree, knots) ==
    IF Le(tt, tMax)
    THEN <<evaluateBSplineQ2(controlPoints, tt, degree, knots)>>
             \o BSplineLoopQ2(controlPoints, Add(tt, step), step, tMax, degree, knots)
    ELSE <<>>

generateBSplineCurveQ2(controlPoints, degree, resolution) ==
    IF Len(controlPoints) < degree + 1 THEN <<>>
    ELSE LET n == Len(controlPoints)
             knots == generateKnotVectorQ2(n, degree)
             tMin == At(knots, degree)
             tMax == At(knots, n)
             step == Div(Sub(tMax, tMin), Num(resolution))
         IN  BSplineLoopQ2(controlPoints, tMin, step, tMax, degree, knots)
                 \o <<evaluateBSplineQ2(controlPoints, tMax, degree, knots)>>

generateProfile(controlPoints, type, degree, resolution) ==
    IF type = "bezier" THEN generateBezierCurveQ2(controlPoints, resolution)
    ELSE IF type = "spline" THEN generateBSplineCurveQ2(controlPoints, degree, resolution)
    ELSE <<>>

---------------------------------------------------------------------------
(* revolution.js: RevolutionSurface *)

\* this.parameters = {}
EmptyObject == [object |-> "{}"]

\* the fields the constructor sets
SurfaceEmpty ==
    [vertices |-> <<>>, faces |-> <<>>, normals |-> <<>>, parameters |-> EmptyObject]

\* a clear that resets the parameters and keeps the mesh
clearParametersOnly(s) == [s EXCEPT !.parameters = EmptyObject]

clear(s) ==
    [s EXCEPT !.vertices = <<>>, !.faces = <<>>, !.normals = <<>>,
              !.parameters = EmptyObject]

\* theta = i * angleStep, counted in quarter turns (90 degrees).  The sweeps
\* the model generates have a step of a whole number of quarter turns, for
\* which the cosine and the sine are -1, 0 or 1.
Theta(i, angle, subdivisions) == Rat(i * angle, 90 * subdivisions)

Cos(theta) ==
    IF theta.d # 1 THEN NotFinite
    ELSE CASE theta.n % 4 = 0 -> One
           [] theta.n % 4 = 2 -> Neg(One)
           [] OTHER -> Zero

Sin(theta) ==
    IF theta.d # 1 THEN NotFinite
    ELSE CASE theta.n % 4 = 1 -> One
           [] theta.n % 4 = 3 -> Neg(One)
           [] OTHER -> Zero

rotatePoint(point, theta, axis) ==
    CASE axis = "y" ->
             [x |-> Mul(point.x, Cos(theta)), y |-> point.y, z |-> Mul(point.x, Sin(theta))]
      [] axis = "x" ->
             [x |-> point.x, y |-> Mul(point.y, Cos(theta)), z |-> Mul(point.y, Sin(theta))]
      [] axis = "z" ->
             [x |-> Sub(Mul(point.x, Cos(theta)), Mul(point.y, Sin(theta))),
              y |-> Add(Mul(point.x, Sin(theta)), Mul(point.y, Cos(theta))),
              z |-> Zero]
      [] OTHER -> [x |-> point.x, y |-> point.y, z |-> Zero]

\* RingLoop storing the profile points of a ring from the last to the first
RECURSIVE RingLoopReversed(_, _, _, _)
RingLoopReversed(j, profilePoints, theta, axis) ==
    IF j < Len(profilePoints)
    THEN <<rotatePoint(profilePoints[Len(profilePoints) - j], theta, axis)>>
             \o RingLoopReversed(j + 1, profilePoints, theta, axis)
    ELSE <<>>

\* for (let j = 0; j < profilePoints.length; j++) vertices.push(rotatePoint(..))
RECURSIVE RingLoop(_, _, _, _)
RingLoop(j, profilePoints, theta, axis) ==
    IF j < Len(profilePoints)
    THEN <<rotatePoint(profilePoints[j + 1], theta, axis)>>
             \o RingLoop(j + 1, profilePoints, theta, axis)
    ELSE <<>>

\* for (let i = 0; i <= subdivisions; i++) of the vertex generation
RECURSIVE VertexLoop(_, _, _, _, _)
VertexLoop(i, profilePoints, axis, angle, subdivisions) ==
    IF i <= subdivisions
    THEN RingLoop(0, profilePoints, Theta(i, angle, subdivisions), axis)
             \o VertexLoop(i + 1, profilePoints, axis, angle, subdivisions)
    ELSE <<>>

\* QuadLoop with the second triangle of each quad listed the other way round
RECURSIVE QuadLoopFlippedSecond(_, _, _)
QuadLoopFlippedSecond(i, j, pointsPerRing) ==
    IF j < pointsPerRing - 1
    THEN LET current == i * pointsPerRing + j
             next == current + pointsPerRing
         IN  << <<current, next, current + 1>>, <<current + 1, next + 1, next>> >>
                 \o QuadLoopFlippedSecond(i, j + 1, pointsPerRing)
    ELSE <<>>

\* for (let j = 0; j < pointsPerRing - 1; j++) of the face generation;
\* a face is the triple of its vertex indices, counted from 0
RECURSIVE QuadLoop(_, _, _)
QuadLoop(i, j, pointsPerRing) ==
    IF j < pointsPerRing - 1
    THEN LET current == i * pointsPerRing + j
             next == current + pointsPerRing
         IN  << <<current, next, current + 1>>, <<current + 1, next, next + 1>> >>
                 \o QuadLoop(i, j + 1, pointsPerRing)
    ELSE <<>>

\* for (let i = 0; i < subdivisions; i++) of the face generation
RECURSIVE FaceLoop(_, _, _)
FaceLoop(i, pointsPerRing, subdivisions) ==
    IF i < subdivisions
    THEN QuadLoop(i, 0, pointsPerRing) \o FaceLoop(i + 1, pointsPerRing, subdivisions)
    ELSE <<>>

\* (v1 - v0) x (v2 - v0) for the face <<i0, i1, i2>>
FaceCross(vertices, face) ==
    LET v0 == vertices[face[1] + 1]
        v1 == vertices[face[2] + 1]
        v2 == vertices[face[3] + 1]
        edge1 == [x |-> Sub(v1.x, v0.x), y |-> Sub(v1.y, v0.y), z |-> Sub(v1.z, v0.z)]
        edge2 == [x |-> Sub(v2.x, v0.x), y |-> Sub(v2.y, v0.y), z |-> Sub(v2.z, v0.z)]
    IN  [x |-> Sub(Mul(edge1.y, edge2.z), Mul(edge1.z, edge2.y)),
         y |-> Sub(Mul(edge1.z, edge2.x), Mul(edge1.x, edge2.z)),
         z |-> Sub(Mul(edge1.x, edge2.y), Mul(edge1.y, edge2.x))]

\* this.normals[idx] += normal
Accumulate(normals, idx, normal) ==
    [normals EXCEPT ![idx + 1] = [x |-> Add(@.x, normal.x),
                                  y |-> Add(@.y, normal.y),
                                  z |-> Add(@.z, normal.z)]]

\* for (const face of this.faces) of calculateNormals, from the k-th face on
RECURSIVE AccumulateLoop(_, _, _, _)
AccumulateLoop(normals, vertices, faces, k) ==
    IF k > Len(faces) THEN normals
    ELSE LET normal == FaceCross(vertices, faces[k])
             n0 == Accumulate(normals, faces[k][1], normal)
             n1 == Accumulate(n0, faces[k][2], normal)
             n2 == Accumulate(n1, faces[k][3], normal)
         IN  AccumulateLoop(n2, vertices, faces, k + 1)

\* Normalize without the division: the accumulated sum is stored as it is
NormalizeSkipped(n) == [x |-> n.x, y |-> n.y, z |-> n.z, lengthSquared |-> One]

\* n /= Math.sqrt(n.x * n.x + n.y * n.y + n.z * n.z) when that length is > 0.
\* The square root is kept exact: a normal is the vector (x, y, z) divided by
\* the square root of lengthSquared, and lengthSquared is 1 where the code
\* divides by nothing.
Normalize(n) ==
    LET lengthSquared == Add(Add(Mul(n.x, n.x), Mul(n.y, n.y)), Mul(n.z, n.z))
    IN  IF Lt(Zero, lengthSquared)
        THEN [x |-> n.x, y |-> n.y, z |-> n.z, lengthSquared |-> lengthSquared]
        ELSE [x |-> n.x, y |-> n.y, z |-> n.z, lengthSquared |-> One]

calculateNormals(vertices, faces) ==
    LET zeros == [k \in 1..Len(vertices) |-> [x |-> Zero, y |-> Zero, z |-> Zero]]
        sums == AccumulateLoop(zeros, vertices, faces, 1)
    IN  [k \in 1..Len(sums) |-> Normalize(sums[k])]

\* generate(profilePoints, axis, angle, subdivisions) on the surface s
generate(s, profilePoints, axis, angle, subdivisions) ==
    IF Len(profilePoints) < 2 THEN s
    ELSE LET cleared == clear(s)
             vertices == cleared.vertices
                             \o VertexLoop(0, profilePoints, axis, angle, subdivisions)
             faces == cleared.faces \o FaceLoop(0, Len(profilePoints), subdivisions)
         IN  [vertices |-> vertices,
              faces |-> faces,
              normals |-> calculateNormals(vertices, faces),
              parameters |-> [axis |-> axis, angle |-> angle, subdivisions |-> subdivisions,
                              profilePointsCount |-> Len(profilePoints)]]

getStats(s) ==
    [vertices |-> Len(s.vertices), faces |-> Len(s.faces), triangles |-> Len(s.faces)]

getData(s) ==
    [vertices |-> s.vertices, faces |-> s.faces, normals |-> s.normals,
     parameters |-> s.parameters]

createRevolutionSurface(profilePoints, axis, angle, subdivisions) ==
    generate(SurfaceEmpty, profilePoints, axis, angle, subdivisions)

---------------------------------------------------------------------------
(* Questao 02, main.js and the ProfilePoints of curve2D.js *)

\* the initial value of the state object (without its two objects)
StateInit ==
    [curveType |-> "bezier", curveDegree |-> 3, curveResolution |-> 50,
     revolutionAxis |-> "y", revolutionAngle |-> 360, angularSubdivisions |-> 32,
     isDragging |-> FALSE, dragPointIndex |-> -1]

\* centre of the 2D canvas, in CSS pixels: half of its width and height
centerX == 16
centerY == 16
\* minDistance of validateAndAdjustProfile
minDistance == 5
\* default threshold of findPointAt
threshold == 10

\* ProfilePoints.addPoint (the id, a time stamp nothing reads, is left out)
addPoint(pts, x, y) == Append(pts, [x |-> x, y |-> y])

\* ProfilePoints.removePoint
removePoint(pts, index) ==
    IF index >= 0 /\ index < Len(pts)
    THEN SubSeq(pts, 1, index) \o SubSeq(pts, index + 2, Len(pts))
    ELSE pts

\* ProfilePoints.movePoint
movePoint(pts, index, x, y) ==
    IF index >= 0 /\ index < Len(pts)
    THEN [pts EXCEPT ![index + 1] = [@ EXCEPT !.x = x, !.y = y]]
    ELSE pts

\* Math.sqrt((p.x - x) ** 2 + (p.y - y) ** 2) <= threshold, compared squared
WithinThreshold(p, x, y) ==
    Le(Add(Mul(Sub(p.x, x), Sub(p.x, x)), Mul(Sub(p.y, y), Sub(p.y, y))),
       Num(threshold * threshold))

\* ProfilePoints.findPointAt, the loop from index i on
RECURSIVE FindLoop(_, _, _, _)
FindLoop(pts, i, x, y) ==
    IF i < Len(pts)
    THEN IF WithinThreshold(pts[i + 1], x, y) THEN i ELSE FindLoop(pts, i + 1, x, y)
    ELSE -1

findPointAt(pts, x, y) == FindLoop(pts, 0, x, y)

\* AdjustedPoint keeping only the samples at a radius above minDistance
AdjustedPointStrict(point, axis) ==
    CASE axis = "y" ->
             LET radiusY == MathAbs(Sub(point.x, Num(centerX)))
             IN  IF Lt(Num(minDistance), radiusY)
                 THEN <<[x |-> radiusY, y |-> Sub(point.y, Num(centerY))]>>
                 ELSE <<>>
      [] axis = "x" ->
             LET radiusX == MathAbs(Sub(point.y, Num(centerY)))
             IN  IF Lt(Num(minDistance), radiusX)
                 THEN <<[x |-> radiusX, y |-> Sub(point.x, Num(centerX))]>>
                 ELSE <<>>
      [] axis = "z" ->
             <<[x |-> Sub(point.x, Num(centerX)), y |-> Sub(point.y, Num(centerY))]>>
      [] OTHER -> <<>>

\* validateAndAdjustProfile: the body of the loop for one sample, as the
\* sequence of the points it pushes
AdjustedPoint(point, axis) ==
    CASE axis = "y" ->
             LET radiusY == MathAbs(Sub(point.x, Num(centerX)))
             IN  IF Le(Num(minDistance), radiusY)
                 THEN <<[x |-> radiusY, y |-> Sub(point.y, Num(centerY))]>>
                 ELSE <<>>
      [] axis = "x" ->
             LET radiusX == MathAbs(Sub(point.y, Num(centerY)))
             IN  IF Le(Num(minDistance), radiusX)
                 THEN <<[x |-> radiusX, y |-> Sub(point.x, Num(centerX))]>>
                 ELSE <<>>
      [] axis = "z" ->
             <<[x |-> Sub(point.x, Num(centerX)), y |-> Sub(point.y, Num(centerY))]>>
      [] OTHER -> <<>>

RECURSIVE ValidateLoop(_, _, _)
ValidateLoop(profilePoints, k, axis) ==
    IF k > Len(profilePoints) THEN <<>>
    ELSE AdjustedPoint(profilePoints[k], axis) \o ValidateLoop(profilePoints, k + 1, axis)

validateAndAdjustProfile(profilePoints, axis) == ValidateLoop(profilePoints, 1, axis)

\* regenerateSurface from "if (validProfile.length < 2)" on
GenerateFromValidProfile(validProfile, st, s) ==
    IF Len(validProfile) < 2 THEN s
    ELSE generate(s, validProfile, st.revolutionAxis, st.revolutionAngle,
                  st.angularSubdivisions)

\* regenerateSurface from "if (profileCurve.length === 0)" on
GenerateFromProfileCurve(profileCurve, st, s) ==
    IF Len(profileCurve) = 0 THEN s
    ELSE GenerateFromValidProfile(
             validateAndAdjustProfile(profileCurve, st.revolutionAxis), st, s)

\* regenerateSurface: the currentSurface it leaves, for the profile points
\* pts, the state object st and the current surface s
regenerateSurface(pts, st, s) ==
    IF Len(pts) < 2 THEN clear(s)
    ELSE GenerateFromProfileCurve(
             generateProfile(pts, st.curveType, st.curveDegree, st.curveResolution), st, s)

\* regenerateAll: render2D and updateInfo draw and change nothing
regenerateAll(pts, st, s) == regenerateSurface(pts, st, s)

---------------------------------------------------------------------------
(* The curve functions applied to bounded inputs *)
\* a control point {x, y, weight} as the ControlPointsManager stores it
Point(x, y, w) == [x |-> Num(x), y |-> Num(y), weight |-> w]
ControlPoint ==
    {Point(0, 0, One), Point(50, 100, One), Point(100, 0, One),
     Point(50, 100, Rat(1, 2))}
UnitWeightPoint == {p \in ControlPoint : p.weight = One}
\* t = 0, 1/TDen, ..., 1 and one value outside [0, 1] on each side
Params == {Rat(k, TDen) : k \in (-1)..(TDen + 1)}
SplineParams == {Rat(k, TDen) : k \in 0..(TDen * (MaxPoints - 1))}
NewKnots == {Zero, Rat(1, 2), Num(1), Rat(3, 2)}
Resolutions == {1, 2}

RECURSIVE SeqsUpTo(_, _)
SeqsUpTo(S, n) ==
    IF n = 0 THEN {<<>>}
    ELSE LET shorter == SeqsUpTo(S, n - 1)
         IN  shorter \cup {Append(s, e) : s \in {q \in shorter : Len(q) = n - 1}, e \in S}

NoArgs == [none |-> TRUE]

BezierInit ==
    /\ points \in SeqsUpTo(ControlPoint, MaxPoints)
    /\ t \in Params
    /\ call = "none"
    /\ args = NoArgs
    /\ ret = Null
    /\ surface = SurfaceEmpty
    /\ state = StateInit

CallDeCasteljau ==
    /\ call = "none"
    /\ call' = "deCasteljau"
    /\ args' = NoArgs
    /\ ret' = deCasteljau(points, t)
    /\ UNCHANGED <<points, t, surface, state>>

CallDeCasteljauSimple ==
    /\ call = "none"
    /\ call' = "deCasteljauSimple"
    /\ args' = NoArgs
    /\ ret' = deCasteljauSimple(points, t)
    /\ UNCHANGED <<points, t, surface, state>>

CallDeCasteljauQ2 ==
    /\ call = "none"
    /\ call' = "deCasteljauQ2"
    /\ args' = NoArgs
    /\ ret' = deCasteljauQ2(points, t)
    /\ UNCHANGED <<points, t, surface, state>>

\* the functions that take no parameter t are called with t = 0 only
CallGenerateBezierCurve ==
    \E steps \in 1..MaxSteps, useWeights \in BOOLEAN :
        /\ call = "none"
        /\ t = Zero
        /\ call' = "generateBezierCurve"
        /\ args' = [steps |-> steps, useWeights |-> useWeights]
        /\ ret' = [curve |-> generateBezierCurve(points, steps, useWeights)]
        /\ UNCHANGED <<points, t, surface, state>>

\* sameArray records whether the returned array is the argument itself
CallElevateBezierDegree ==
    /\ call = "none"
    /\ t = Zero
    /\ call' = "elevateBezierDegree"
    /\ args' = NoArgs
    /\ ret' = [elevated |-> elevateBezierDegree(points),
               sameArray |-> elevateReturnsArgument(points)]
    /\ UNCHANGED <<points, t, surface, state>>

CallSplitBezier ==
    /\ call = "none"
    /\ call' = "splitBezier"
    /\ args' = NoArgs
    /\ ret' = splitBezier(points, t)
    /\ UNCHANGED <<points, t, surface, state>>

BezierNext ==
    \/ CallDeCasteljau
    \/ CallDeCasteljauSimple
    \/ CallDeCasteljauQ2
    \/ CallGenerateBezierCurve
    \/ CallElevateBezierDegree
    \/ CallSplitBezier

BezierSpec == BezierInit /\ [][BezierNext]_vars

SplineInit ==
    /\ points \in SeqsUpTo(UnitWeightPoint, MaxPoints)
    /\ t \in SplineParams
    /\ call = "none"
    /\ args = NoArgs
    /\ ret = Null
    /\ surface = SurfaceEmpty
    /\ state = StateInit

\* the spline calls below are those of a caller that has checked
\* n >= degree + 1 and built the knot vector for its control points
SplineArgs(degree, knots) == [degree |-> degree, knots |-> knots]

CallBSplineBasis ==
    \E degree \in 1..MaxDegree :
        /\ Len(points) >= degree + 1
        /\ LET knots == generateKnotVector(Len(points), degree)
           IN  /\ call = "none"
               /\ call' = "bSplineBasis"
               /\ args' = SplineArgs(degree, knots)
               /\ ret' = [basis |-> [j \in 1..Len(points) |-> bSplineBasis(j - 1, degree, t, knots)]]
               /\ UNCHANGED <<points, t, surface, state>>

CallBSplineBasisQ2 ==
    \E degree \in 1..MaxDegree :
        /\ Len(points) >= degree + 1
        /\ LET knots == generateKnotVectorQ2(Len(points), degree)
           IN  /\ call = "none"
               /\ call' = "bSplineBasisQ2"
               /\ args' = SplineArgs(degree, knots)
               /\ ret' = [basis |-> [j \in 1..Len(points) |-> bSplineBasisQ2(j - 1, degree, t, knots)]]
               /\ UNCHANGED <<points, t, surface, state>>

CallEvaluateBSpline ==
    \E degree \in 1..MaxDegree :
        /\ Len(points) >= degree + 1
        /\ LET knots == generateKnotVector(Len(points), degree)
           IN  /\ call = "none"
               /\ call' = "evaluateBSpline"
               /\ args' = SplineArgs(degree, knots)
               /\ ret' = evaluateBSpline(points, t, degree, knots)
               /\ UNCHANGED <<points, t, surface, state>>

CallEvaluateBSplineQ2 ==
    \E degree \in 1..MaxDegree :
        /\ Len(points) >= degree + 1
        /\ LET knots == generateKnotVectorQ2(Len(points), degree)
           IN  /\ call = "none"
               /\ call' = "evaluateBSplineQ2"
               /\ args' = SplineArgs(degree, knots)
               /\ ret' = evaluateBSplineQ2(points, t, degree, knots)
               /\ UNCHANGED <<points, t, surface, state>>

CallGenerateBSplineCurveQ2 ==
    \E degree \in 1..MaxDegree, resolution \in Resolutions :
        /\ call = "none"
        /\ t = Zero
        /\ call' = "generateBSplineCurveQ2"
        /\ args' = [degree |-> degree, resolution |-> resolution]
        /\ ret' = [curve |-> generateBSplineCurveQ2(points, degree, resolution),
                   params |-> IF Len(points) < degree + 1 THEN <<>>
                              ELSE DomainParams(generateKnotVectorQ2(Len(points), degree),
                                                degree, Len(points), resolution)]
        /\ UNCHANGED <<points, t, surface, state>>

\* step values a binary float holds exactly: 1/2 lands on the end of the
\* domain, 3/4 steps over it
Steps == {Rat(1, 2), Rat(3, 4)}

CallGenerateBSplineCurve ==
    \E degree \in 1..MaxDegree, step \in Steps :
        /\ Len(points) >= degree + 1
        /\ call = "none"
        /\ t = Zero
        /\ call' = "generateBSplineCurve"
        /\ args' = [degree |-> degree, step |-> step]
        /\ ret' = [curve |-> generateBSplineCurve(points, degree, step),
                   params |-> LET knots == generateKnotVector(Len(points), degree)
                              IN  SampleParams(At(knots, degree), At(knots, Len(points)), step)]
        /\ UNCHANGED <<points, t, surface, state>>

CallGenerateBezierCurveQ2 ==
    \E resolution \in Resolutions :
        /\ Len(points) >= 2
        /\ call = "none"
        /\ t = Zero
        /\ call' = "generateBezierCurveQ2"
        /\ args' = [resolution |-> resolution]
        /\ ret' = [curve |-> generateBezierCurveQ2(points, resolution),
                   params |-> SampleParams(Zero, One, Rat(1, resolution))]
        /\ UNCHANGED <<points, t, surface, state>>

CallInsertKnot ==
    \E degree \in 1..MaxDegree, newKnot \in NewKnots :
        /\ Len(points) >= degree + 1
        /\ LET knots == generateKnotVector(Len(points), degree)
           IN  /\ call = "none"
               /\ call' = "insertKnot"
               /\ args' = [degree |-> degree, knots |-> knots, newKnot |-> newKnot]
               /\ ret' = insertKnot(points, knots, degree, newKnot)
               /\ UNCHANGED <<points, t, surface, state>>

MaxKnotPoints == 5

CallGenerateKnotVector ==
    \E n \in 1..MaxKnotPoints, degree \in 0..(MaxDegree + 1) :
        /\ call = "none"
        /\ t = Zero
        /\ call' = "generateKnotVector"
        /\ args' = [n |-> n, degree |-> degree]
        /\ ret' = [knots |-> generateKnotVector(n, degree)]
        /\ UNCHANGED <<points, t, surface, state>>

CallGenerateKnotVectorQ2 ==
    \E n \in 1..MaxKnotPoints, degree \in 0..(MaxDegree + 1) :
        /\ call = "none"
        /\ t = Zero
        /\ call' = "generateKnotVectorQ2"
        /\ args' = [n |-> n, degree |-> degree]
        /\ ret' = [knots |-> generateKnotVectorQ2(n, degree)]
        /\ UNCHANGED <<points, t, surface, state>>

SplineNext ==
    \/ CallGenerateKnotVector
    \/ CallGenerateKnotVectorQ2
    \/ CallBSplineBasis
    \/ CallBSplineBasisQ2
    \/ CallEvaluateBSpline
    \/ CallEvaluateBSplineQ2
    \/ CallGenerateBSplineCurveQ2
    \/ CallGenerateBSplineCurve
    \/ CallGenerateBezierCurveQ2
    \/ CallInsertKnot

SplineSpec == SplineInit /\ [][SplineNext]_vars

---------------------------------------------------------------------------
(* A RevolutionSurface under sequences of calls of its methods *)

\* the profile of scenario C
ScenarioC ==
    << [x |-> Num(10), y |-> Num(0)], [x |-> Num(10), y |-> Num(5)],
       [x |-> Num(5), y |-> Num(10)] >>

\* profiles of 0 to 3 points; one of them lies on the rotation axis
Profiles ==
    {SubSeq(ScenarioC, 1, k) : k \in 0..3}
        \cup {<<[x |-> Num(0), y |-> Num(0)], [x |-> Num(0), y |-> Num(5)]>>}

Axes == {"x", "y", "z"}
Angles == {180, 360}
\* a sweep has at most MaxSubdivisions angular subdivisions
MaxSubdivisions == 4
\* the pairs <<angle, subdivisions>> whose step is a whole number of quarter turns
Sweeps == {sw \in Angles \X (1..MaxSubdivisions) : sw[1] % (90 * sw[2]) = 0}

SurfaceInit ==
    /\ points = <<>>
    /\ t = Zero
    /\ call = "none"
    /\ args = NoArgs
    /\ ret = Null
    /\ surface = SurfaceEmpty
    /\ state = StateInit

Generate ==
    \E profilePoints \in Profiles, axis \in Axes, sw \in Sweeps :
        /\ call' = "generate"
        /\ args' = [profilePoints |-> profilePoints, axis |-> axis,
                    angle |-> sw[1], subdivisions |-> sw[2]]
        /\ ret' = Null
        /\ surface' = generate(surface, profilePoints, axis, sw[1], sw[2])
        /\ UNCHANGED <<points, t, state>>

Clear ==
    /\ call' = "clear"
    /\ args' = NoArgs
    /\ ret' = Null
    /\ surface' = clear(surface)
    /\ UNCHANGED <<points, t, state>>

GetStats ==
    /\ call' = "getStats"
    /\ args' = NoArgs
    /\ ret' = getStats(surface)
    /\ UNCHANGED <<points, t, surface, state>>

GetData ==
    /\ call' = "getData"
    /\ args' = NoArgs
    /\ ret' = getData(surface)
    /\ UNCHANGED <<points, t, surface, state>>

SurfaceNext ==
    \/ Generate
    \/ Clear
    \/ GetStats
    \/ GetData

SurfaceSpec == SurfaceInit /\ [][SurfaceNext]_vars

---------------------------------------------------------------------------
(* The Questao 02 application under sequences of its events *)

\* the profile holds at most MaxProfilePoints control points
MaxProfilePoints == 2
\* pointer positions on the 2D canvas; the last one lies on both axes
Positions == {<<24, 8>>, <<16, 16>>}
CurveTypes == {"bezier", "spline"}
SubdivisionChoices == {1, 2}

\* the application after the example profile was cleared and the sliders
\* were set to small values
Q2Init ==
    /\ points = <<>>
    /\ t = Zero
    /\ call = "none"
    /\ args = NoArgs
    /\ ret = Null
    /\ surface = SurfaceEmpty
    /\ state = [StateInit EXCEPT !.curveDegree = 1, !.curveResolution = 1,
                                 !.angularSubdivisions = 2]

onCanvas2DMouseDown ==
    \E pos \in Positions :
        LET x == Num(pos[1])
            y == Num(pos[2])
            pointIndex == findPointAt(points, x, y)
        IN  IF pointIndex # -1
            THEN /\ state' = [state EXCEPT !.isDragging = TRUE, !.dragPointIndex = pointIndex]
                 /\ UNCHANGED <<points, surface>>
                 /\ UNCHANGED <<t, call, args, ret>>
            ELSE /\ Len(points) < MaxProfilePoints
                 /\ points' = addPoint(points, x, y)
                 /\ surface' = regenerateAll(points', state, surface)
                 /\ UNCHANGED <<state, t, call, args, ret>>

onCanvas2DMouseMove ==
    \E pos \in Positions :
        IF state.isDragging /\ state.dragPointIndex # -1
        THEN /\ points' = movePoint(points, state.dragPointIndex, Num(pos[1]), Num(pos[2]))
             /\ surface' = regenerateAll(points', state, surface)
             /\ UNCHANGED <<state, t, call, args, ret>>
        ELSE UNCHANGED vars

onCanvas2DMouseUp ==
    /\ state' = [state EXCEPT !.isDragging = FALSE, !.dragPointIndex = -1]
    /\ UNCHANGED <<points, surface, t, call, args, ret>>

onCanvas2DRightClick ==
    \E pos \in Positions :
        LET pointIndex == findPointAt(points, Num(pos[1]), Num(pos[2]))
        IN  IF pointIndex # -1
            THEN /\ points' = removePoint(points, pointIndex)
                 /\ surface' = regenerateAll(points', state, surface)
                 /\ UNCHANGED <<state, t, call, args, ret>>
            ELSE UNCHANGED vars

clearProfile ==
    /\ points' = <<>>
    /\ surface' = regenerateAll(points', state, clear(surface))
    /\ UNCHANGED <<state, t, call, args, ret>>

CurveTypeChange ==
    \E value \in CurveTypes :
        /\ state' = [state EXCEPT !.curveType = value]
        /\ surface' = regenerateAll(points, state', surface)
        /\ UNCHANGED <<points, t, call, args, ret>>

CurveDegreeInput ==
    \E value \in 1..MaxDegree :
        /\ state' = [state EXCEPT !.curveDegree = value]
        /\ surface' = regenerateAll(points, state', surface)
        /\ UNCHANGED <<points, t, call, args, ret>>

CurveResolutionInput ==
    \E value \in Resolutions :
        /\ state' = [state EXCEPT !.curveResolution = value]
        /\ surface' = regenerateAll(points, state', surface)
        /\ UNCHANGED <<points, t, call, args, ret>>

AxisSelectChange ==
    \E value \in Axes :
        /\ state' = [state EXCEPT !.revolutionAxis = value]
        /\ surface' = regenerateSurface(points, state', surface)
        /\ UNCHANGED <<points, t, call, args, ret>>

RevolutionAngleInput ==
    \E value \in Angles :
        /\ state' = [state EXCEPT !.revolutionAngle = value]
        /\ surface' = regenerateSurface(points, state', surface)
        /\ UNCHANGED <<points, t, call, args, ret>>

AngularSubdivisionsInput ==
    \E value \in SubdivisionChoices :
        /\ state' = [state EXCEPT !.angularSubdivisions = value]
        /\ surface' = regenerateSurface(points, state', surface)
        /\ UNCHANGED <<points, t, call, args, ret>>

Q2Next ==
    \/ onCanvas2DMouseDown
    \/ onCanvas2DMouseMove
    \/ onCanvas2DMouseUp
    \/ onCanvas2DRightClick
    \/ clearProfile
    \/ CurveTypeChange
    \/ CurveDegreeInput
    \/ CurveResolutionInput
    \/ AxisSelectChange
    \/ RevolutionAngleInput
    \/ AngularSubdivisionsInput

Q2Spec == Q2Init /\ [][Q2Next]_vars

---------------------------------------------------------------------------
(* Questao 01, controlPoints.js: class ControlPointsManager.  A manager is
   the record of the object's fields; index arguments are the 0-based
   indices of the code.  The id field of a point is never read and is left
   out. *)

\* constructor
ManagerNew ==
    [points |-> <<>>, selectedPointIndex |-> -1, isDragging |-> FALSE,
     hoverPointIndex |-> -1]

\* index >= 0 && index < this.points.length
ValidIndex(m, index) == index >= 0 /\ index < Len(m.points)

Manager_addPoint(m, x, y, weight) ==
    [m EXCEPT !.points = Append(@, [x |-> x, y |-> y, weight |-> weight])]

\* the value addPoint returns: this.points.length - 1 after the push
Manager_addPointResult(m, x, y, weight) == Len(Manager_addPoint(m, x, y, weight).points) - 1

\* removePoint leaving the selected index alone when it lies after the removed point
Manager_removePointNoShift(m, index) ==
    IF ValidIndex(m, index)
    THEN [m EXCEPT !.points = SubSeq(@, 1, index) \o SubSeq(@, index + 2, Len(@)),
                   !.selectedPointIndex = IF @ = index THEN -1 ELSE @]
    ELSE m

\* removePoint clearing the selection before the range test
Manager_removePointDeselectFirst(m, index) ==
    IF ValidIndex(m, index)
    THEN [m EXCEPT !.points = SubSeq(@, 1, index) \o SubSeq(@, index + 2, Len(@)),
                   !.selectedPointIndex = -1]
    ELSE [m EXCEPT !.selectedPointIndex = -1]

Manager_removePoint(m, index) ==
    IF ValidIndex(m, index)
    THEN [m EXCEPT !.points = SubSeq(@, 1, index) \o SubSeq(@, index + 2, Len(@)),
                   !.selectedPointIndex = IF @ = index THEN -1
                                          ELSE IF @ > index THEN @ - 1 ELSE @]
    ELSE m

Manager_removeLastPoint(m) ==
    IF Len(m.points) > 0
    THEN [m EXCEPT !.points = SubSeq(@, 1, Len(@) - 1),
                   !.selectedPointIndex = IF @ >= Len(m.points) - 1 THEN -1 ELSE @]
    ELSE m

Manager_clearPoints(m) == ManagerNew

Manager_movePoint(m, index, x, y) ==
    IF ValidIndex(m, index)
    THEN [m EXCEPT !.points[index + 1] = [@ EXCEPT !.x = x, !.y = y]]
    ELSE m

\* the minimum of Math.max(0.1, weight)
minWeight == Rat(1, 10)

Manager_updateWeight(m, index, weight) ==
    IF ValidIndex(m, index)
    THEN [m EXCEPT !.points[index + 1] = [@ EXCEPT !.weight = Max(minWeight, weight)]]
    ELSE m

\* p.weight || 1.0 : undefined (no such field) and 0 are falsy
WeightOrDefault(p) ==
    IF "weight" \in DOMAIN p
    THEN IF p.weight = Zero THEN One ELSE p.weight
    ELSE One

Manager_getAllPoints(m) == m.points

Manager_setAllPoints(m, pts) ==
    [m EXCEPT !.points = [k \in 1..Len(pts) |->
                              [x |-> pts[k].x, y |-> pts[k].y, weight |-> WeightOrDefault(pts[k])]],
              !.selectedPointIndex = -1,
              !.isDragging = FALSE]

\* Math.sqrt(dx * dx + dy * dy) <= threshold, compared squared
Near(p, x, y, thr) ==
    Le(Add(Mul(Sub(p.x, x), Sub(p.x, x)), Mul(Sub(p.y, y), Sub(p.y, y))), Mul(thr, thr))

\* findPointNear, the loop from index i down
RECURSIVE FindNearLoop(_, _, _, _, _)
FindNearLoop(m, i, x, y, thr) ==
    IF i >= 0
    THEN IF Near(m.points[i + 1], x, y, thr) THEN i ELSE FindNearLoop(m, i - 1, x, y, thr)
    ELSE -1

Manager_findPointNear(m, x, y, thr) == FindNearLoop(m, Len(m.points) - 1, x, y, thr)

Manager_selectPoint(m, index) ==
    IF index = -1 \/ ValidIndex(m, index)
    THEN [m EXCEPT !.selectedPointIndex = index]
    ELSE m

Manager_startDragging(m, index) ==
    IF ValidIndex(m, index)
    THEN [m EXCEPT !.selectedPointIndex = index, !.isDragging = TRUE]
    ELSE m

Manager_stopDragging(m) == [m EXCEPT !.isDragging = FALSE]

Manager_setHoverPoint(m, index) == [m EXCEPT !.hoverPointIndex = index]

\* JSON.parse on the texts of JsonStrings: the parsed value, or the
\* SyntaxError the catch block swallows
JSONParse(s) ==
    CASE s = "{\"points\":[{\"x\":0,\"y\":0,\"weight\":-1}]}" ->
             [points |-> <<[x |-> Zero, y |-> Zero, weight |-> Num(-1)]>>]
      [] s = "{\"points\":[{\"x\":8,\"y\":0},{\"x\":0,\"y\":0,\"weight\":0}]}" ->
             [points |-> <<[x |-> Num(8), y |-> Zero],
                           [x |-> Zero, y |-> Zero, weight |-> Zero]>>]
      [] s = "{\"count\":0}" -> [count |-> 0]
      [] OTHER -> [threw |-> "SyntaxError"]

\* data.points && Array.isArray(data.points)
HasPointsArray(data) == "points" \in DOMAIN data

Manager_importFromJSONResult(m, jsonString) == HasPointsArray(JSONParse(jsonString))

RECURSIVE AddAll(_, _, _)
AddAll(m, pts, k) ==
    IF k > Len(pts) THEN m
    ELSE AddAll(Manager_addPoint(m, pts[k].x, pts[k].y, WeightOrDefault(pts[k])), pts, k + 1)

Manager_importFromJSON(m, jsonString) ==
    IF HasPointsArray(JSONParse(jsonString))
    THEN AddAll(Manager_clearPoints(m), JSONParse(jsonString).points, 1)
    ELSE m

RECURSIVE SumField(_, _, _)
SumField(pts, k, xAxis) ==
    IF k > Len(pts) THEN Zero
    ELSE Add(IF xAxis THEN pts[k].x ELSE pts[k].y, SumField(pts, k + 1, xAxis))

Manager_getCenter(m) ==
    IF Len(m.points) = 0 THEN Null
    ELSE [x |-> Div(SumField(m.points, 1, TRUE), Num(Len(m.points))),
          y |-> Div(SumField(m.points, 1, FALSE), Num(Len(m.points)))]

\* translatePoints through transformAllPoints: {...p, x, y} keeps the weight
Manager_translatePoints(m, dx, dy) ==
    [m EXCEPT !.points = [k \in 1..Len(m.points) |->
                              [m.points[k] EXCEPT !.x = Add(@, dx), !.y = Add(@, dy)]]]

\* scalePoints about the point c
ScaleAbout(m, scale, c) ==
    [m EXCEPT !.points = [k \in 1..Len(m.points) |->
                              [m.points[k] EXCEPT !.x = Add(c.x, Mul(Sub(@, c.x), scale)),
                                                  !.y = Add(c.y, Mul(Sub(@, c.y), scale))]]]

\* scalePoints with the default centre: center || this.getCenter()
Manager_scalePoints(m, scale) ==
    IF Len(m.points) = 0 THEN m ELSE ScaleAbout(m, scale, Manager_getCenter(m))

---------------------------------------------------------------------------
(* The manager driven through its methods: state.bezierManager is the
   object, call, args and ret describe the last method call. *)

MaxManagerPoints == 3

ManagerPositions == {<<Zero, Zero>>, <<Num(8), Zero>>}
AddWeights == {One, Num(-1)}
UpdateWeights == {Num(-1)}
Indices == (-1)..MaxManagerPoints
HoverIndices == {-1, 0}
PointArrays ==
    {<<>>,
     <<[x |-> Zero, y |-> Zero, weight |-> Num(-1)]>>,
     <<[x |-> Num(8), y |-> Zero], [x |-> Zero, y |-> Zero, weight |-> Zero]>>}
JsonStrings ==
    {"{\"points\":[{\"x\":0,\"y\":0,\"weight\":-1}]}",
     "{\"points\":[{\"x\":8,\"y\":0},{\"x\":0,\"y\":0,\"weight\":0}]}",
     "{\"count\":0}",
     "not json"}
Translations == {<<Num(8), Zero>>, <<Num(-8), Zero>>}
Scales == {Num(-1)}

manager == state.bezierManager
Undefined == [undefined |-> TRUE]

\* every coordinate of the manager m lies between 0 and 8
InCanvas(m) ==
    \A k \in 1..Len(m.points) :
        /\ Le(Zero, m.points[k].x) /\ Le(m.points[k].x, Num(8))
        /\ Le(Zero, m.points[k].y) /\ Le(m.points[k].y, Num(8))

ManagerInit ==
    /\ points = <<>>
    /\ t = Zero
    /\ call = "none"
    /\ args = NoArgs
    /\ ret = Null
    /\ surface = SurfaceEmpty
    /\ state = [bezierManager |-> ManagerNew]

\* one method call: the name, the arguments, the returned value, the object afterwards
Method(name, a, r, m) ==
    /\ call' = name
    /\ args' = a
    /\ ret' = r
    /\ state' = [state EXCEPT !.bezierManager = m]
    /\ UNCHANGED <<points, t, surface>>

AddPoint ==
    /\ Len(manager.points) < MaxManagerPoints
    /\ \E p \in ManagerPositions, w \in AddWeights :
           Method("addPoint", [weight |-> w],
                  [index |-> Manager_addPointResult(manager, p[1], p[2], w)],
                  Manager_addPoint(manager, p[1], p[2], w))

RemovePoint ==
    \E index \in Indices :
        Method("removePoint", [index |-> index], [ok |-> ValidIndex(manager, index)],
               Manager_removePoint(manager, index))

RemoveLastPoint ==
    Method("removeLastPoint", NoArgs, [ok |-> Len(manager.points) > 0],
           Manager_removeLastPoint(manager))

ClearPoints == Method("clearPoints", NoArgs, Undefined, Manager_clearPoints(manager))

MovePoint ==
    \E index \in Indices, p \in ManagerPositions :
        Method("movePoint", [index |-> index], [ok |-> ValidIndex(manager, index)],
               Manager_movePoint(manager, index, p[1], p[2]))

UpdateWeight ==
    \E index \in Indices, w \in UpdateWeights :
        Method("updateWeight", [index |-> index], [ok |-> ValidIndex(manager, index)],
               Manager_updateWeight(manager, index, w))

SetAllPoints ==
    \E pts \in PointArrays :
        Method("setAllPoints", NoArgs, Undefined, Manager_setAllPoints(manager, pts))

ImportFromJSON ==
    \E s \in JsonStrings :
        Method("importFromJSON", NoArgs, [ok |-> Manager_importFromJSONResult(manager, s)],
               Manager_importFromJSON(manager, s))

SelectPoint ==
    \E index \in Indices :
        Method("selectPoint", NoArgs, Undefined, Manager_selectPoint(manager, index))

StartDragging ==
    \E index \in Indices :
        Method("startDragging", NoArgs, Undefined, Manager_startDragging(manager, index))

StopDragging == Method("stopDragging", NoArgs, Undefined, Manager_stopDragging(manager))

SetHoverPoint ==
    \E index \in HoverIndices :
        Method("setHoverPoint", NoArgs, Undefined, Manager_setHoverPoint(manager, index))

TranslatePoints ==
    \E d \in Translations :
        /\ InCanvas(Manager_translatePoints(manager, d[1], d[2]))
        /\ Method("translatePoints", NoArgs, Undefined,
                  Manager_translatePoints(manager, d[1], d[2]))

ScalePoints ==
    \E scale \in Scales :
        /\ InCanvas(Manager_scalePoints(manager, scale))
        /\ Method("scalePoints", NoArgs, Undefined, Manager_scalePoints(manager, scale))

ManagerNext ==
    \/ AddPoint
    \/ RemovePoint
    \/ RemoveLastPoint
    \/ ClearPoints
    \/ MovePoint
    \/ UpdateWeight
    \/ SetAllPoints
    \/ ImportFromJSON
    \/ SelectPoint
    \/ StartDragging
    \/ StopDragging
    \/ SetHoverPoint
    \/ TranslatePoints
    \/ ScalePoints

ManagerSpec == ManagerInit /\ [][ManagerNext]_vars

---------------------------------------------------------------------------
(* Point picking of both applications applied to the same point sequence *)

PickPositions == {Point(0, 0, One), Point(8, 0, One), Point(100, 100, One)}
PickQueries == {<<Num(1), Num(1)>>, <<Num(4), Zero>>, <<Num(200), Num(200)>>}
\* the default threshold of findPointNear and the one the canvas handlers pass
NearThresholds == {10, 15}

PickInit ==
    /\ points \in SeqsUpTo(PickPositions, MaxPoints)
    /\ t = Zero
    /\ call = "none"
    /\ args = NoArgs
    /\ ret = Null
    /\ surface = SurfaceEmpty
    /\ state = [bezierManager |-> [ManagerNew EXCEPT !.points = points]]

CallFindPointNear ==
    /\ call = "none"
    /\ \E q \in PickQueries, thr \in NearThresholds :
           /\ call' = "findPointNear"
           /\ args' = [x |-> q[1], y |-> q[2], threshold |-> thr]
           /\ ret' = [index |-> Manager_findPointNear(manager, q[1], q[2], Num(thr))]
    /\ UNCHANGED <<points, t, surface, state>>

CallFindPointAt ==
    /\ call = "none"
    /\ \E q \in PickQueries :
           /\ call' = "findPointAt"
           /\ args' = [x |-> q[1], y |-> q[2], threshold |-> threshold]
           /\ ret' = [index |-> findPointAt(points, q[1], q[2])]
    /\ UNCHANGED <<points, t, surface, state>>

PickNext ==
    \/ CallFindPointNear
    \/ CallFindPointAt

PickSpec == PickInit /\ [][PickNext]_vars

---------------------------------------------------------------------------
(* Questao 02, regenerateSurface from the sampled profile curve on:
   validateAndAdjustProfile followed by RevolutionSurface.generate.  points
   holds the samples of the profile curve, in canvas coordinates. *)

\* (21, 11) lies at distance minDistance from both axes
CurveSamples == {[x |-> Num(24), y |-> Num(8)], [x |-> Num(18), y |-> Num(24)],
                 [x |-> Num(16), y |-> Num(16)], [x |-> Num(4), y |-> Num(22)],
                 [x |-> Num(21), y |-> Num(11)]}

PipelineInit ==
    /\ points \in SeqsUpTo(CurveSamples, MaxPoints)
    /\ t = Zero
    /\ call = "none"
    /\ args = NoArgs
    /\ ret = Null
    /\ surface = SurfaceEmpty
    /\ \E axis \in Axes, angle \in Angles, subdivisions \in SubdivisionChoices :
           state = [StateInit EXCEPT !.revolutionAxis = axis, !.revolutionAngle = angle,
                                     !.angularSubdivisions = subdivisions]

CallRegenerateSurface ==
    /\ call = "none"
    /\ call' = "regenerateSurface"
    /\ args' = NoArgs
    /\ ret' = [validProfile |-> validateAndAdjustProfile(points, state.revolutionAxis)]
    /\ surface' = GenerateFromProfileCurve(points, state, surface)
    /\ UNCHANGED <<points, t, state>>

PipelineNext == CallRegenerateSurface

PipelineSpec == PipelineInit /\ [][PipelineNext]_vars

---------------------------------------------------------------------------
(* Questao 01, main.js on the Bezier tab (state.currentMode = 'bezier', so
   getCurrentManager() is state.bezierManager).  Every handler ends with
   render(); ret holds the curve points render hands to drawCurve.  The
   handlers that only change what else is drawn are left out. *)

MaxBezierPoints == 2

\* the canvas handlers pass this threshold to findPointNear
pickThreshold == 15

MousePositions == {<<Zero, Zero>>, <<Num(40), Num(40)>>}
\* values of the weight inputs (min 0.1, max 5, step 0.1)
WeightInputs == {"0.5", "1", "2"}
StepsInputs == {1, 2}

\* parseFloat on the texts of WeightInputs
parseFloat(s) ==
    CASE s = "0.5" -> Rat(1, 2)
      [] s = "1" -> One
      [] s = "2" -> Num(2)
      [] OTHER -> NotFinite

\* render: the curvePoints drawn, none when the curve is not drawn
render(st) ==
    IF Len(Manager_getAllPoints(st.bezierManager)) = 0 THEN <<>>
    ELSE IF Len(Manager_getAllPoints(st.bezierManager)) >= 2
         THEN generateBezierCurve(Manager_getAllPoints(st.bezierManager),
                                  st.bezierConfig.steps, st.bezierConfig.showWeights)
         ELSE <<>>

Q1Init ==
    /\ points = <<>>
    /\ t = Zero
    /\ call = "none"
    /\ args = NoArgs
    /\ surface = SurfaceEmpty
    /\ state = [bezierManager |-> ManagerNew,
                bezierConfig |-> [steps |-> 2, showWeights |-> FALSE]]
    /\ ret = [curvePoints |-> render(state)]

\* a handler: the manager and the configuration it leaves, then render()
Handler(name, m, config) ==
    /\ call' = name
    /\ state' = [bezierManager |-> m, bezierConfig |-> config]
    /\ ret' = [curvePoints |-> render([bezierManager |-> m, bezierConfig |-> config])]
    /\ UNCHANGED <<points, t, args, surface>>

CanvasMouseDown ==
    \E p \in MousePositions :
        IF Manager_findPointNear(manager, p[1], p[2], Num(pickThreshold)) >= 0
        THEN Handler("mousedown",
                     Manager_startDragging(manager,
                         Manager_findPointNear(manager, p[1], p[2], Num(pickThreshold))),
                     state.bezierConfig)
        ELSE /\ Len(manager.points) < MaxBezierPoints
             /\ Handler("mousedown", Manager_addPoint(manager, p[1], p[2], One),
                        state.bezierConfig)

CanvasMouseMove ==
    \E p \in MousePositions :
        IF ~manager.isDragging
        THEN Handler("mousemove",
                     Manager_setHoverPoint(manager,
                         Manager_findPointNear(manager, p[1], p[2], Num(pickThreshold))),
                     state.bezierConfig)
        ELSE Handler("mousemove",
                     Manager_movePoint(manager, manager.selectedPointIndex, p[1], p[2]),
                     state.bezierConfig)

CanvasMouseUp == Handler("mouseup", Manager_stopDragging(manager), state.bezierConfig)

ClearPointsBezier ==
    Handler("clear-points-bezier", Manager_clearPoints(manager), state.bezierConfig)

RemoveLastBezier ==
    Handler("remove-last-bezier", Manager_removeLastPoint(manager), state.bezierConfig)

BezierStepsInput ==
    \E steps \in StepsInputs :
        Handler("bezier-steps", manager, [state.bezierConfig EXCEPT !.steps = steps])

ShowWeightsBezierChange ==
    \E checked \in BOOLEAN :
        Handler("show-weights-bezier", manager,
                [state.bezierConfig EXCEPT !.showWeights = checked])

deletePoint ==
    \E index \in 0..MaxBezierPoints :
        Handler("deletePoint", Manager_removePoint(manager, index), state.bezierConfig)

updatePointWeight ==
    \E index \in 0..MaxBezierPoints, weight \in WeightInputs :
        Handler("updatePointWeight",
                Manager_updateWeight(manager, index, parseFloat(weight)),
                state.bezierConfig)

Q1Next ==
    \/ CanvasMouseDown
    \/ CanvasMouseMove
    \/ CanvasMouseUp
    \/ ClearPointsBezier
    \/ RemoveLastBezier
    \/ BezierStepsInput
    \/ ShowWeightsBezierChange
    \/ deletePoint
    \/ updatePointWeight

Q1Spec == Q1Init /\ [][Q1Next]_vars

---------------------------------------------------------------------------
(* Questao 01, main.js with both tabs: state.currentMode, the two managers
   and the handlers that reach them.  A manager holds point objects, and
   movePoint and updateWeight write into the object: a point object held by
   both managers would change in both.  state.sameObject is the set of the
   pairs <<i, k>> for which bezierManager.points[i] and
   splineManager.points[k] are one object. *)

\* each manager holds at most MaxTabPoints control points
MaxTabPoints == 2
Modes == {"bezier", "spline"}

getCurrentManager(st) ==
    IF st.currentMode = "bezier" THEN st.bezierManager ELSE st.splineManager

\* a setAllPoints that stores the objects of the array it is given
SharedAfterSetAllPointsKept(n) == {<<i, i>> : i \in 0..(n - 1)}

\* setAllPoints(points) on an array of n points: "points.map(p => ({x: p.x,
\* y: p.y, ...}))" builds a new object for every point, so the manager
\* holds no object of the array
SharedAfterSetAllPoints(n) == {}

\* the Bezier manager is side 1 of a pair of sameObject, the spline manager side 2
SideOf(mode) == IF mode = "bezier" THEN 1 ELSE 2

\* sameObject after splice(index, 1) on the manager of a side: the removed
\* object leaves, the later ones move down by one
AfterRemoval(shared, side, index) ==
    {IF side = 1
     THEN <<IF p[1] > index THEN p[1] - 1 ELSE p[1], p[2]>>
     ELSE <<p[1], IF p[2] > index THEN p[2] - 1 ELSE p[2]>> :
         p \in {q \in shared : q[side] # index}}

\* the other manager after a write into points[index] of the manager m of a
\* side: its points that are that object show the written values
WriteThrough(other, shared, side, m, index) ==
    [other EXCEPT !.points =
        [k \in 1..Len(other.points) |->
            IF /\ ValidIndex(m, index)
               /\ (IF side = 1 THEN <<index, k - 1>> ELSE <<k - 1, index>>) \in shared
            THEN m.points[index + 1]
            ELSE other.points[k]]]

TabState(mode, bezier, spline, shared) ==
    [currentMode |-> mode, bezierManager |-> bezier, splineManager |-> spline,
     sameObject |-> shared]

\* the state after the manager of a side became m, no object written
WithManager(st, side, m, shared) ==
    IF side = 1
    THEN TabState(st.currentMode, m, st.splineManager, shared)
    ELSE TabState(st.currentMode, st.bezierManager, m, shared)

\* the state after the manager of a side became m by a write into points[index]
WithWrite(st, side, m, index) ==
    IF side = 1
    THEN TabState(st.currentMode, m,
                  WriteThrough(st.splineManager, st.sameObject, 1, m, index), st.sameObject)
    ELSE TabState(st.currentMode,
                  WriteThrough(st.bezierManager, st.sameObject, 2, m, index), m, st.sameObject)

TabsInit ==
    /\ points = <<>>
    /\ t = Zero
    /\ call = "none"
    /\ args = NoArgs
    /\ ret = Null
    /\ surface = SurfaceEmpty
    /\ state = TabState("bezier", ManagerNew, ManagerNew, {})

\* a handler of the application: the state it leaves
Event(st) ==
    /\ state' = st
    /\ UNCHANGED <<points, t, call, args, ret, surface>>

TabMouseDown ==
    \E p \in MousePositions :
        LET m == getCurrentManager(state)
            side == SideOf(state.currentMode)
            pointIndex == Manager_findPointNear(m, p[1], p[2], Num(pickThreshold))
        IN  IF pointIndex >= 0
            THEN Event(WithManager(state, side, Manager_startDragging(m, pointIndex),
                                   state.sameObject))
            ELSE /\ Len(m.points) < MaxTabPoints
                 /\ Event(WithManager(state, side, Manager_addPoint(m, p[1], p[2], One),
                                      state.sameObject))

TabMouseMove ==
    \E p \in MousePositions :
        LET m == getCurrentManager(state)
            side == SideOf(state.currentMode)
        IN  IF ~m.isDragging
            THEN Event(WithManager(state, side,
                           Manager_setHoverPoint(m,
                               Manager_findPointNear(m, p[1], p[2], Num(pickThreshold))),
                           state.sameObject))
            ELSE Event(WithWrite(state, side,
                           Manager_movePoint(m, m.selectedPointIndex, p[1], p[2]),
                           m.selectedPointIndex))

TabMouseUp ==
    Event(WithManager(state, SideOf(state.currentMode),
                      Manager_stopDragging(getCurrentManager(state)), state.sameObject))

TabMouseLeave ==
    Event(WithManager(state, SideOf(state.currentMode),
                      Manager_setHoverPoint(Manager_stopDragging(getCurrentManager(state)), -1),
                      state.sameObject))

switchTab ==
    \E tab \in Modes :
        Event([state EXCEPT !.currentMode = tab])

CopyFromBezier ==
    Event(TabState(state.currentMode, state.bezierManager,
                   Manager_setAllPoints(state.splineManager,
                                        Manager_getAllPoints(state.bezierManager)),
                   SharedAfterSetAllPoints(Len(Manager_getAllPoints(state.bezierManager)))))

TabDeletePoint ==
    \E index \in 0..(MaxTabPoints - 1) :
        LET m == getCurrentManager(state)
            side == SideOf(state.currentMode)
        IN  Event(WithManager(state, side, Manager_removePoint(m, index),
                              IF ValidIndex(m, index)
                              THEN AfterRemoval(state.sameObject, side, index)
                              ELSE state.sameObject))

\* the weight input of the first point of the list
TabUpdatePointWeight ==
    \E index \in {0} :
        Event(WithWrite(state, 1,
                        Manager_updateWeight(state.bezierManager, index, parseFloat("2")),
                        index))

TabsNext ==
    \/ TabMouseDown
    \/ TabMouseMove
    \/ TabMouseUp
    \/ TabMouseLeave
    \/ switchTab
    \/ CopyFromBezier
    \/ TabDeletePoint
    \/ TabUpdatePointWeight

TabsSpec == TabsInit /\ [][TabsNext]_vars

---------------------------------------------------------------------------
(* Questao 02, renderer3D.js: class Renderer3D, the fields mesh, wireframe
   and viewMode and the surface objects of the THREE.Scene.  state is the
   renderer: scene is the set of the surface objects added to the scene and
   not removed, mesh and wireframe are the objects the fields refer to
   (NoObject for null), nextId numbers the objects as they are created. *)

\* the renderer creates at most MaxSceneObjects objects
MaxSceneObjects == 10
ViewModes == {"solid", "wireframe", "smooth"}

NoObject == [kind |-> "null", id |-> 0, triangles |-> 0]

\* constructor and init(): no surface object yet
RendererNew ==
    [scene |-> {}, mesh |-> NoObject, wireframe |-> NoObject, viewMode |-> "solid",
     nextId |-> 1]

\* a surface of one triangle, as getData() returns it
OneTriangle ==
    [vertices |-> <<[x |-> Zero, y |-> Zero, z |-> Zero], [x |-> One, y |-> Zero, z |-> Zero],
                    [x |-> Zero, y |-> One, z |-> Zero]>>,
     faces |-> << <<0, 1, 2>> >>,
     normals |-> <<[x |-> Zero, y |-> Zero, z |-> One], [x |-> Zero, y |-> Zero, z |-> One],
                   [x |-> Zero, y |-> Zero, z |-> One]>>]

\* what regenerateSurface hands to updateSurface: null, the data of a
\* cleared surface, the data of a mesh
SurfaceDatas == {Null, getData(SurfaceEmpty), OneTriangle}

\* "!surfaceData || surfaceData.vertices.length === 0"
NoSurfaceData(surfaceData) ==
    IF surfaceData = Null THEN TRUE ELSE Len(surfaceData.vertices) = 0

\* scene.remove(object): removing an object that is not in the scene, or
\* null, changes nothing
SceneRemove(scene, object) == scene \ {object}

\* createSolidMesh: a mesh and the wireframe laid over it
createSolidMesh(r, triangles) ==
    LET mesh == [kind |-> "mesh", id |-> r.nextId, triangles |-> triangles]
        wireframe == [kind |-> "wireframe", id |-> r.nextId + 1, triangles |-> triangles]
    IN  [r EXCEPT !.mesh = mesh, !.wireframe = wireframe,
                  !.scene = r.scene \cup {mesh, wireframe}, !.nextId = r.nextId + 2]

\* createSmoothMesh and createWireframeMesh: a mesh alone
createSingleMesh(r, triangles) ==
    LET mesh == [kind |-> "mesh", id |-> r.nextId, triangles |-> triangles]
    IN  [r EXCEPT !.mesh = mesh, !.scene = r.scene \cup {mesh}, !.nextId = r.nextId + 1]

createMeshFromGeometry(r, triangles) ==
    IF r.viewMode \in {"wireframe", "smooth"}
    THEN createSingleMesh(r, triangles)
    ELSE createSolidMesh(r, triangles)

\* updateSurface: the fields mesh and wireframe keep referring to the
\* objects removed from the scene
updateSurface(r, surfaceData) ==
    LET removed == [r EXCEPT !.scene = SceneRemove(SceneRemove(r.scene, r.mesh), r.wireframe)]
    IN  IF NoSurfaceData(surfaceData) THEN removed
        ELSE createMeshFromGeometry(removed, Len(surfaceData.faces))

\* setViewMode: "if (this.mesh && this.mesh.geometry)" holds for every mesh
\* the field refers to, in the scene or not
setViewMode(r, mode) ==
    LET withMode == [r EXCEPT !.viewMode = mode]
    IN  IF r.mesh # NoObject
        THEN createMeshFromGeometry(
                 [withMode EXCEPT !.scene = SceneRemove(SceneRemove(r.scene, r.mesh), r.wireframe),
                                  !.wireframe = NoObject],
                 r.mesh.triangles)
        ELSE withMode

RendererInit ==
    /\ points = <<>>
    /\ t = Zero
    /\ call = "none"
    /\ args = NoArgs
    /\ ret = Null
    /\ surface = SurfaceEmpty
    /\ state = RendererNew

\* args keeps the argument of the last updateSurface
UpdateSurface ==
    \E surfaceData \in SurfaceDatas :
        /\ state.nextId + 2 <= MaxSceneObjects
        /\ call' = "updateSurface"
        /\ args' = [surfaceData |-> surfaceData]
        /\ state' = updateSurface(state, surfaceData)
        /\ UNCHANGED <<points, t, ret, surface>>

SetViewMode ==
    \E mode \in ViewModes :
        /\ state.nextId + 2 <= MaxSceneObjects
        /\ call' = "setViewMode"
        /\ state' = setViewMode(state, mode)
        /\ UNCHANGED <<points, t, args, ret, surface>>

RendererNext ==
    \/ UpdateSurface
    \/ SetViewMode

RendererSpec == RendererInit /\ [][RendererNext]_vars

---------------------------------------------------------------------------
(* Properties of the curve functions *)

XY(p) == [x |-> p.x, y |-> p.y]

RECURSIVE SeqSum(_)
SeqSum(q) == IF Len(q) = 0 THEN Zero ELSE Add(q[1], SeqSum(Tail(q)))

\* t lies in the domain [knots[degree], knots[n]] of the spline of the call
InDomain(tt) ==
    /\ Le(At(args.knots, args.degree), tt)
    /\ Le(tt, At(args.knots, Len(points)))

\* C2: partition of unity.  On a clamped-uniform knot vector (degree >= 1,
\* n >= degree + 1) the basis functions N_0 .. N_{n-1} of both
\* implementations sum to 1 at every t of the closed domain.
C2_PartitionOfUnity ==
    (call \in {"bSplineBasis", "bSplineBasisQ2"} /\ InDomain(t)) => SeqSum(ret.basis) = One

\* C3: clamped endpoint interpolation.  evaluateBSpline returns the first
\* control point at t = knots[degree] and the last one at t = knots[n], and
\* the sample generateBSplineCurve appends at the end is the last control point.
C3_ClampedEndpoints ==
    /\ call \in {"evaluateBSpline", "evaluateBSplineQ2"} =>
           /\ t = At(args.knots, args.degree) => ret = XY(points[1])
           /\ t = At(args.knots, Len(points)) => ret = XY(points[Len(points)])
    /\ (call = "generateBSplineCurveQ2" /\ Len(points) >= args.degree + 1) =>
           ret.curve[Len(ret.curve)] = XY(points[Len(points)])

\* C4: Bezier endpoint interpolation.  On a non-empty list (weights > 0) the
\* rational deCasteljau, deCasteljauSimple and the Questao 02 deCasteljau
\* return the first control point at t = 0 and the last one at t = 1.
C4_BezierEndpoints ==
    (call \in {"deCasteljau", "deCasteljauSimple", "deCasteljauQ2"} /\ Len(points) >= 1) =>
        /\ t = Zero => XY(ret) = XY(points[1])
        /\ t = One => XY(ret) = XY(points[Len(points)])

C4_Witness ==
    /\ call = "deCasteljau"
    /\ Len(points) = 3
    /\ hasWeights(points)
    /\ XY(points[3]) # XY(points[1])
    /\ t = One
    /\ ret = XY(points[3])

\* C5: insertKnot preserves the curve.  For a new knot strictly inside the
\* domain the spline of the returned points and knots takes, at every t of
\* the domain, the value of the spline it was given.
C5_InsertKnotPreservesShape ==
    (/\ call = "insertKnot"
     /\ Lt(At(args.knots, args.degree), args.newKnot)
     /\ Lt(args.newKnot, At(args.knots, Len(points)))
     /\ InDomain(t)) =>
        /\ ret # Threw
        /\ evaluateBSpline(ret.controlPoints, t, args.degree, ret.knots)
               = evaluateBSpline(points, t, args.degree, args.knots)

\* C6: elevateBezierDegree preserves the curve.  For at least 2 control
\* points the elevated list has, at every t in [0, 1], the point of the
\* given list under deCasteljauSimple.
C6_ElevationPreservesShape ==
    (call = "elevateBezierDegree" /\ Len(points) >= 2) =>
        \A u \in Params :
            (Le(Zero, u) /\ Le(u, One)) =>
                deCasteljauSimple(ret.elevated, u) = deCasteljauSimple(points, u)

C6_Witness ==
    /\ call = "elevateBezierDegree"
    /\ Len(points) = 3
    /\ Len(ret.elevated) = 4
    /\ XY(ret.elevated[2]) # XY(points[1])
    /\ XY(ret.elevated[2]) # XY(points[2])
    /\ deCasteljauSimple(ret.elevated, Rat(1, 2)) = deCasteljauSimple(points, Rat(1, 2))

\* C7: with every weight equal to 1 the rational deCasteljau returns the
\* point deCasteljauSimple returns, for every t.
C7_RationalEqualsSimple ==
    (call = "deCasteljau" /\ ~hasWeights(points)) => ret = deCasteljauSimple(points, t)

C7_Witness ==
    /\ call = "deCasteljau"
    /\ Len(points) = 3
    /\ ~hasWeights(points)
    /\ t = Rat(1, TDen)
    /\ ret # XY(points[1])
    /\ ret = deCasteljauSimple(points, t)

ScenarioA == <<Point(0, 0, One), Point(50, 100, One), Point(100, 0, One)>>

\* the evaluator generateBezierCurve samples with
SampledPoint(pts, tt, useWeights) ==
    IF hasWeights(pts) /\ useWeights THEN deCasteljau(pts, tt) ELSE deCasteljauSimple(pts, tt)

\* C8: generateBezierCurve(points, steps), steps >= 1, returns the empty
\* sequence for fewer than 2 control points and otherwise steps + 1 samples,
\* the i-th at t = i/steps; (0,0),(50,100),(100,0) with 2 steps give
\* (0,0), (50,50), (100,0).
C8_BezierSamples ==
    call = "generateBezierCurve" =>
        /\ Len(points) < 2 => ret.curve = <<>>
        /\ Len(points) >= 2 =>
               /\ Len(ret.curve) = args.steps + 1
               /\ \A i \in 0..args.steps :
                      ret.curve[i + 1] = SampledPoint(points, Rat(i, args.steps), args.useWeights)
        /\ (points = ScenarioA /\ args.steps = 2) =>
               ret.curve = << [x |-> Num(0), y |-> Num(0)],
                        [x |-> Num(50), y |-> Num(50)],
                        [x |-> Num(100), y |-> Num(0)] >>

C8_Witness ==
    /\ call = "generateBezierCurve"
    /\ points = ScenarioA
    /\ args.steps = 2
    /\ Len(ret.curve) = 3
    /\ ret.curve[2] = [x |-> Num(50), y |-> Num(50)]


---------------------------------------------------------------------------
(* Properties of the revolution surface *)

\* C1: mesh counts.  After generate on a profile of P >= 2 points with
\* S >= 1 subdivisions, whatever the surface held before, the mesh has
\* (S+1)*P vertices, 2*S*(P-1) faces, one normal per vertex, and every
\* index of every face is >= 0 and < the number of vertices.
C1_MeshCounts ==
    (call = "generate" /\ Len(args.profilePoints) >= 2 /\ args.subdivisions >= 1) =>
        /\ Len(surface.vertices) = (args.subdivisions + 1) * Len(args.profilePoints)
        /\ Len(surface.faces) = 2 * args.subdivisions * (Len(args.profilePoints) - 1)
        /\ Len(surface.normals) = Len(surface.vertices)
        /\ \A f \in 1..Len(surface.faces) :
               /\ Len(surface.faces[f]) = 3
               /\ \A k \in 1..3 : /\ surface.faces[f][k] >= 0
                                  /\ surface.faces[f][k] < Len(surface.vertices)

C1_Witness ==
    /\ call = "generate"
    /\ args = [profilePoints |-> ScenarioC, axis |-> "y", angle |-> 360, subdivisions |-> 4]
    /\ Len(surface.vertices) = 15
    /\ Len(surface.faces) = 16
    /\ Len(surface.normals) = 15
    /\ surface.faces[16] = <<11, 13, 14>>

\* C9: generate with a profile of fewer than 2 points leaves the surface
\* Empty, whatever it held before: getStats reports 0 vertices and 0 faces
\* and getData has empty vertices, faces and normals.
C9_ShortProfileLeavesEmpty ==
    (call = "generate" /\ Len(args.profilePoints) < 2) =>
        /\ getStats(surface).vertices = 0
        /\ getStats(surface).faces = 0
        /\ getData(surface).vertices = <<>>
        /\ getData(surface).faces = <<>>
        /\ getData(surface).normals = <<>>

Zero3 == [x |-> Zero, y |-> Zero, z |-> Zero]

\* the sum of the cross products of the faces, from the f-th on, that have
\* the vertex index idx among their three indices
RECURSIVE IncidentSum(_, _, _, _)
IncidentSum(vertices, faces, idx, f) ==
    IF f > Len(faces) THEN Zero3
    ELSE IF idx \in {faces[f][1], faces[f][2], faces[f][3]}
         THEN Accumulate(<<IncidentSum(vertices, faces, idx, f + 1)>>, 0,
                         FaceCross(vertices, faces[f]))[1]
         ELSE IncidentSum(vertices, faces, idx, f + 1)

\* the stored normal n, the vector (x, y, z) / sqrt(lengthSquared), is finite,
\* is zero exactly when the sum is, and otherwise is the sum scaled to length 1
NormalOfSum(n, sum) ==
    /\ IsFinite(n.x) /\ IsFinite(n.y) /\ IsFinite(n.z)
    /\ Lt(Zero, n.lengthSquared)
    /\ (sum = Zero3) <=> ([x |-> n.x, y |-> n.y, z |-> n.z] = Zero3)
    /\ (sum # Zero3) =>
           /\ [x |-> n.x, y |-> n.y, z |-> n.z] = sum
           /\ Add(Add(Mul(n.x, n.x), Mul(n.y, n.y)), Mul(n.z, n.z)) = n.lengthSquared

\* C17: after generate every vertex normal is the zero vector, exactly when
\* the sum of the cross products (v1 - v0) x (v2 - v0) of the faces incident
\* to the vertex is zero, or has unit length and the direction of that sum;
\* no component of a normal is NaN or infinite.
C17_NormalsUnitOrZero ==
    (call = "generate" /\ Len(args.profilePoints) >= 2) =>
        /\ Len(surface.normals) = Len(surface.vertices)
        /\ \A k \in 1..Len(surface.normals) :
               NormalOfSum(surface.normals[k],
                           IncidentSum(surface.vertices, surface.faces, k - 1, 1))

\* a mesh with a normal that was divided by a length other than 1 and a
\* normal left zero
C17_Witness ==
    /\ call = "generate"
    /\ args.profilePoints = ScenarioC
    /\ \E k \in 1..Len(surface.normals) : Lt(One, surface.normals[k].lengthSquared)
    /\ \E k \in 1..Len(surface.normals) :
           [x |-> surface.normals[k].x, y |-> surface.normals[k].y,
            z |-> surface.normals[k].z] = Zero3

\* the three edges of a triangle in the direction it traverses them
DirectedEdges(face) == {<<face[1], face[2]>>, <<face[2], face[3]>>, <<face[3], face[1]>>}

\* the triangles of faces that have the edge between a and b, in either direction
TrianglesOnEdge(faces, a, b) ==
    {f \in 1..Len(faces) : <<a, b>> \in DirectedEdges(faces[f]) \/ <<b, a>> \in DirectedEdges(faces[f])}

\* the first vertex index of the quad cell number q (from 0) of a mesh with
\* pointsPerRing points per ring
CellCurrent(q, pointsPerRing) ==
    (q \div (pointsPerRing - 1)) * pointsPerRing + (q % (pointsPerRing - 1))

\* the two triangles of the cell meet along the diagonal (current + 1, next)
SplitAlongDiagonal(first, second, current, next) ==
    /\ <<next, current + 1>> \in DirectedEdges(first)
    /\ <<current + 1, next>> \in DirectedEdges(second)
    /\ current \in {first[1], first[2], first[3]}
    /\ next + 1 \in {second[1], second[2], second[3]}

\* C18: consistent winding.  For P >= 2 and S >= 1 every edge shared by two
\* triangles is traversed in opposite directions by them, no edge belongs to
\* more than two triangles, and every quad cell is split along the same
\* diagonal (current + 1, next).
C18_ConsistentWinding ==
    (call = "generate" /\ Len(args.profilePoints) >= 2 /\ args.subdivisions >= 1) =>
        /\ \A f, g \in 1..Len(surface.faces) :
               f # g => DirectedEdges(surface.faces[f]) \cap DirectedEdges(surface.faces[g]) = {}
        /\ \A f \in 1..Len(surface.faces) :
               \A e \in DirectedEdges(surface.faces[f]) :
                   Cardinality(TrianglesOnEdge(surface.faces, e[1], e[2])) <= 2
        /\ \A q \in 0..((Len(surface.faces) \div 2) - 1) :
               SplitAlongDiagonal(surface.faces[2 * q + 1], surface.faces[2 * q + 2],
                                  CellCurrent(q, Len(args.profilePoints)),
                                  CellCurrent(q, Len(args.profilePoints))
                                      + Len(args.profilePoints))

\* a mesh of 2 rings of quads, whose first cell is split into (0, 3, 1) and (1, 3, 4)
C18_Witness ==
    /\ call = "generate"
    /\ args.profilePoints = ScenarioC
    /\ args.subdivisions = 2
    /\ Len(surface.faces) = 8
    /\ surface.faces[1] = <<0, 3, 1>>
    /\ surface.faces[2] = <<1, 3, 4>>
    /\ Cardinality(TrianglesOnEdge(surface.faces, 3, 4)) = 2

---------------------------------------------------------------------------
(* Properties of the Questao 02 application *)

\* the profile the current control points and parameters give
ProfileOfState ==
    validateAndAdjustProfile(
        generateProfile(points, state.curveType, state.curveDegree, state.curveResolution),
        state.revolutionAxis)

\* the mesh of that profile under the current revolution parameters
MeshOfState ==
    generate(SurfaceEmpty, ProfileOfState, state.revolutionAxis, state.revolutionAngle,
             state.angularSubdivisions)

\* C10: no stale surface.  After any sequence of profile edits and parameter
\* changes, once the handler has returned, currentSurface is Empty or is the
\* mesh generated from the current control points and current parameters.
C10_SurfaceNeverStale ==
    \/ surface = SurfaceEmpty
    \/ /\ Len(points) >= 2
       /\ Len(ProfileOfState) >= 2
       /\ surface = MeshOfState

---------------------------------------------------------------------------
(* Properties of ControlPointsManager *)

\* the selected index after removing the point at index from a manager
\* whose selected index was selected
SelectionAfterRemoval(selected, index) ==
    IF selected = index THEN -1
    ELSE IF selected > index THEN selected - 1
    ELSE selected

\* C11: removePoint(i) with 0 <= i < count returns true, removes exactly the
\* i-th point and keeps the order of the others; the selected index still
\* designates the same point (unchanged below i, one less above i) and is
\* -1 when the selected point was the one removed.
C11_RemovePointInRange ==
    [][(call' = "removePoint" /\ ValidIndex(manager, args'.index)) =>
          /\ ret'.ok = TRUE
          /\ Len(manager'.points) = Len(manager.points) - 1
          /\ \A k \in 1..Len(manager'.points) :
                 manager'.points[k] =
                     IF k <= args'.index THEN manager.points[k] ELSE manager.points[k + 1]
          /\ manager'.selectedPointIndex =
                 SelectionAfterRemoval(manager.selectedPointIndex, args'.index)]_vars

\* a point before the selected one has just been removed and the selection moved down
C11_Witness ==
    /\ call = "removePoint"
    /\ ret = [ok |-> TRUE]
    /\ args.index = 0
    /\ Len(manager.points) = 2
    /\ manager.selectedPointIndex = 0
    /\ manager.points[1] # manager.points[2]

\* C12: for an index < 0 or >= count, removePoint, movePoint and
\* updateWeight return false without throwing and leave the points, the
\* selected index, the hover index and the dragging flag as they were.
C12_OutOfRangeIsNoOp ==
    [][(/\ call' \in {"removePoint", "movePoint", "updateWeight"}
        /\ ~ValidIndex(manager, args'.index)) =>
          /\ ret' = [ok |-> FALSE]
          /\ manager'.points = manager.points
          /\ manager'.selectedPointIndex = manager.selectedPointIndex
          /\ manager'.hoverPointIndex = manager.hoverPointIndex
          /\ manager'.isDragging = manager.isDragging]_vars

\* a call with index = count was refused on a manager that holds points, a
\* selection, a hover index and the dragging flag
C12_Witness ==
    /\ call \in {"removePoint", "movePoint", "updateWeight"}
    /\ ret = [ok |-> FALSE]
    /\ args.index = Len(manager.points)
    /\ Len(manager.points) = 2
    /\ manager.selectedPointIndex = 1
    /\ manager.hoverPointIndex = 0
    /\ manager.isDragging

\* C13: after any sequence of manager operations (addPoint with any weight
\* argument, updateWeight, setAllPoints, importFromJSON, removePoint,
\* transforms) every stored control point has weight > 0.
C13_WeightsPositive ==
    \A k \in 1..Len(manager.points) : Lt(Zero, manager.points[k].weight)

---------------------------------------------------------------------------
(* Properties of point picking *)

\* the 0-based indices of the points of pts within distance thr of (x, y)
IndicesWithin(pts, x, y, thr) ==
    {i \in 0..(Len(pts) - 1) : Near(pts[i + 1], x, y, Num(thr))}

\* the greatest of them, -1 when there is none
Topmost(pts, x, y, thr) ==
    IF IndicesWithin(pts, x, y, thr) = {} THEN -1
    ELSE CHOOSE i \in IndicesWithin(pts, x, y, thr) :
             \A j \in IndicesWithin(pts, x, y, thr) : j <= i

\* C14: picking returns the topmost point.  findPointNear (Questao 01) and
\* findPointAt (Questao 02) both return the greatest index whose point lies
\* within the threshold of (x, y), and -1 when no point does.
C14_PickTopmost ==
    call \in {"findPointNear", "findPointAt"} =>
        ret.index = Topmost(points, args.x, args.y, args.threshold)

---------------------------------------------------------------------------
(* Properties of the knot vectors *)

\* C15: for degree >= 0 and n >= degree + 1, generateKnotVector(n, degree) of
\* both implementations is non-decreasing, has length n + degree + 1, has
\* its first degree + 1 entries equal and its last degree + 1 entries equal,
\* and rises by exactly 1 from each entry to the next in between; the two
\* implementations return the same sequence.
C15_ClampedUniformKnots ==
    (/\ call \in {"generateKnotVector", "generateKnotVectorQ2"}
     /\ args.degree >= 0
     /\ args.n >= args.degree + 1) =>
        /\ Len(ret.knots) = args.n + args.degree + 1
        /\ \A k \in 1..(Len(ret.knots) - 1) : Le(ret.knots[k], ret.knots[k + 1])
        /\ \A k \in 1..(args.degree + 1) :
               /\ ret.knots[k] = ret.knots[1]
               /\ ret.knots[Len(ret.knots) + 1 - k] = ret.knots[Len(ret.knots)]
        /\ \A k \in (args.degree + 1)..args.n : ret.knots[k + 1] = Add(ret.knots[k], One)
        /\ ret.knots = generateKnotVector(args.n, args.degree)
        /\ ret.knots = generateKnotVectorQ2(args.n, args.degree)

\* the knot vector of 5 control points of degree 2, with two interior knots
C15_Witness ==
    /\ call = "generateKnotVectorQ2"
    /\ args = [n |-> 5, degree |-> 2]
    /\ ret.knots = <<Num(0), Num(0), Num(0), Num(1), Num(2), Num(3), Num(3), Num(3)>>

---------------------------------------------------------------------------
(* Properties of the profile-to-mesh pipeline *)

\* radius and height of a canvas sample for a rotation axis: its distance
\* from the axis through the canvas centre and its position along it
SampleRadius(p, axis) ==
    IF axis = "y" THEN MathAbs(Sub(p.x, Num(centerX))) ELSE MathAbs(Sub(p.y, Num(centerY)))

SampleHeight(p, axis) ==
    IF axis = "y" THEN Sub(p.y, Num(centerY)) ELSE Sub(p.x, Num(centerX))

\* the samples at radius >= minDistance, in order
RECURSIVE KeptSamples(_, _, _)
KeptSamples(samples, k, axis) ==
    IF k > Len(samples) THEN <<>>
    ELSE (IF Le(Num(minDistance), SampleRadius(samples[k], axis))
          THEN <<samples[k]>> ELSE <<>>) \o KeptSamples(samples, k + 1, axis)

\* squared distance of the vertex v from the rotation axis, and its coordinate along it
AxisDistanceSquared(v, axis) ==
    IF axis = "y" THEN Add(Mul(v.x, v.x), Mul(v.z, v.z)) ELSE Add(Mul(v.y, v.y), Mul(v.z, v.z))

AlongAxis(v, axis) == IF axis = "y" THEN v.y ELSE v.x

\* the vertex v lies at the radius and the height of the sample p
VertexOfSample(v, p, axis) ==
    /\ AxisDistanceSquared(v, axis) = Mul(SampleRadius(p, axis), SampleRadius(p, axis))
    /\ Le(Num(minDistance * minDistance), AxisDistanceSquared(v, axis))
    /\ AlongAxis(v, axis) = SampleHeight(p, axis)

\* every ring of vertices holds one vertex per kept sample, in order
RingsOfSamples(vertices, kept, axis, subdivisions) ==
    /\ Len(vertices) = (subdivisions + 1) * Len(kept)
    /\ \A k \in 1..Len(vertices) :
           VertexOfSample(vertices[k], kept[((k - 1) % Len(kept)) + 1], axis)

\* C16: for revolution axis y and x, every vertex generated from the
\* validated profile lies at distance >= minDistance from the rotation
\* axis: its distance from the axis is the radius of its source sample and
\* its coordinate along the axis is the sample's height.
C16_VerticesKeepRadius ==
    (/\ call = "regenerateSurface"
     /\ state.revolutionAxis \in {"x", "y"}
     /\ Len(KeptSamples(points, 1, state.revolutionAxis)) >= 2) =>
        RingsOfSamples(surface.vertices, KeptSamples(points, 1, state.revolutionAxis),
                       state.revolutionAxis, state.angularSubdivisions)

---------------------------------------------------------------------------
(* Properties of the Questao 01 application *)

\* the samples i / steps, i = 0..steps, of the evaluator the weights select:
\* the rational deCasteljau when some weight differs from 1, else deCasteljauSimple
CurveByWeights(pts, steps) ==
    [k \in 1..(steps + 1) |->
         IF \E i \in 1..Len(pts) : pts[i].weight # One
         THEN deCasteljau(pts, Rat(k - 1, steps))
         ELSE deCasteljauSimple(pts, Rat(k - 1, steps))]

\* C19: the Bezier sampler picks its evaluator from the weights alone.  The
\* curve render draws is sampled with the rational deCasteljau whenever a
\* control point has weight other than 1 and with deCasteljauSimple exactly
\* when every weight is 1, so a weight set through updateWeight always
\* takes effect in the sampled curve.
C19_EvaluatorFromWeights ==
    Len(manager.points) >= 2 =>
        ret.curvePoints = CurveByWeights(manager.points, state.bezierConfig.steps)

---------------------------------------------------------------------------
(* Properties of the Bezier subdivision *)

\* the parameters u = 0, 1/TDen, ..., 1
UnitParams == {Rat(k, TDen) : k \in 0..TDen}

\* half is the control set of the part of the curve of pts between the
\* parameters from and to
SubCurve(half, pts, from, to) ==
    \A u \in UnitParams :
        deCasteljauSimple(half, u) = deCasteljauSimple(pts, Add(from, Mul(u, Sub(to, from))))

\* C20: splitBezier(points, t), t in [0, 1], on n + 1 >= 1 control points returns a left
\* and a right half of n + 1 points each: left starts at the first input
\* point, left ends and right starts at the curve point at t, right ends at
\* the last input point, and for every u in [0, 1] left at u is the curve at
\* u * t and right at u is the curve at t + u * (1 - t).
C20_SplitBezierHalves ==
    (call = "splitBezier" /\ Len(points) >= 1 /\ Le(Zero, t) /\ Le(t, One)) =>
        /\ Len(ret.left) = Len(points)
        /\ Len(ret.right) = Len(points)
        /\ XY(ret.left[1]) = XY(points[1])
        /\ XY(ret.left[Len(ret.left)]) = deCasteljauSimple(points, t)
        /\ XY(ret.right[1]) = deCasteljauSimple(points, t)
        /\ XY(ret.right[Len(ret.right)]) = XY(points[Len(points)])
        /\ SubCurve(ret.left, points, Zero, t)
        /\ SubCurve(ret.right, points, t, One)

\* C21: elevateBezierDegree of n+1 control points (n >= 0) returns a new
\* array of n+2 control points whose first and last points are the first and
\* last points of the argument.
C21_ElevationAddsOnePoint ==
    (call = "elevateBezierDegree" /\ Len(points) >= 1) =>
        /\ Len(ret.elevated) = Len(points) + 1
        /\ ret.elevated[1] = points[1]
        /\ ret.elevated[Len(ret.elevated)] = points[Len(points)]
        /\ ~ret.sameArray

NonDecreasing(knots) ==
    \A i \in 1..(Len(knots) - 1) : Le(knots[i], knots[i + 1])

Occurrences(knots, u) == Cardinality({i \in 1..Len(knots) : knots[i] = u})

KnotInDomain ==
    /\ Le(At(args.knots, args.degree), args.newKnot)
    /\ Le(args.newKnot, At(args.knots, Len(points)))

\* C22: insertKnot keeps the knot-vector invariants.  For a clamped uniform
\* knot vector and a new knot of the domain [knots[degree], knots[n]] the
\* call completes without reading a control point outside 0..n-1, the
\* returned knot vector has one knot more than the returned points plus the
\* degree, it is non-decreasing and it holds the new knot once more than the
\* given knot vector.
C22_InsertKnotKeepsInvariants ==
    (call = "insertKnot" /\ KnotInDomain) =>
        /\ ret # Threw
        /\ Len(ret.knots) = Len(ret.controlPoints) + args.degree + 1
        /\ NonDecreasing(ret.knots)
        /\ Occurrences(ret.knots, args.newKnot) = Occurrences(args.knots, args.newKnot) + 1

StrictlyIncreasing(s) == \A i \in 1..(Len(s) - 1) : Lt(s[i], s[i + 1])

\* C23: the samples of the polyline returned by generateBSplineCurve (of
\* Questao 01 and of Questao 02) and by the Questao 02 generateBezierCurve
\* are taken at strictly increasing parameters, one per point of the
\* polyline: no parameter, the end of the domain included, is sampled twice.
C23_SamplesStrictlyIncreasing ==
    (call \in {"generateBSplineCurve", "generateBSplineCurveQ2", "generateBezierCurveQ2"}) =>
        /\ Len(ret.params) = Len(ret.curve)
        /\ StrictlyIncreasing(ret.params)

\* the rings in which the face f has a vertex, for rings of P vertices
RingsOfFace(f, P) == {f[k] \div P : k \in 1..3}

\* C24: ring structure of the mesh.  After generate on a profile of P >= 2
\* points with S >= 1 subdivisions the vertex of ring r and profile point j
\* is stored at index r*P + j (r = 0..S, j = 0..P-1), every face has its
\* vertices in exactly two consecutive rings r and r+1 with 0 <= r < S, so
\* no face joins ring S to ring 0, and ring 0 is the profile as (x, y, 0).
C24_RingStructure ==
    (call = "generate" /\ Len(args.profilePoints) >= 2 /\ args.subdivisions >= 1) =>
        LET P == Len(args.profilePoints)
            S == args.subdivisions
        IN  /\ \A r \in 0..S : \A j \in 0..(P - 1) :
                   surface.vertices[r * P + j + 1]
                       = rotatePoint(args.profilePoints[j + 1],
                                     Theta(r, args.angle, S), args.axis)
            /\ \A f \in 1..Len(surface.faces) :
                   \E r \in 0..(S - 1) : RingsOfFace(surface.faces[f], P) = {r, r + 1}
            /\ \A j \in 0..(P - 1) :
                   surface.vertices[j + 1]
                       = [x |-> args.profilePoints[j + 1].x,
                          y |-> args.profilePoints[j + 1].y,
                          z |-> Zero]

C24_Witness ==
    /\ call = "generate"
    /\ args = [profilePoints |-> ScenarioC, axis |-> "x", angle |-> 360, subdivisions |-> 4]
    /\ surface.vertices[1] = [x |-> Num(10), y |-> Zero, z |-> Zero]
    /\ surface.vertices[6] = [x |-> Num(5), y |-> Zero, z |-> Num(10)]
    /\ surface.vertices[13] = surface.vertices[1]
    /\ RingsOfFace(surface.faces[16], 3) = {3, 4}

\* the samples validateAndAdjustProfile is to keep for an axis, in order
SamplesToKeep(samples, axis) ==
    IF axis = "z" THEN samples ELSE KeptSamples(samples, 1, axis)

\* the image of a kept sample: (radius, height) for the axes x and y, the
\* sample moved to the canvas centre for the axis z
ImageOfSample(p, axis) ==
    IF axis = "z"
    THEN [x |-> Sub(p.x, Num(centerX)), y |-> Sub(p.y, Num(centerY))]
    ELSE [x |-> SampleRadius(p, axis), y |-> SampleHeight(p, axis)]

\* C25: validateAndAdjustProfile returns, in order, the image of exactly the
\* samples at radius >= 5 for the axes y and x ((|x - centerX|, y - centerY)
\* and (|y - centerY|, x - centerX)) and of every sample for the axis z
\* ((x - centerX, y - centerY)), so for z the lengths are equal.
C25_ValidatedProfileIsImage ==
    (call = "regenerateSurface") =>
        LET axis == state.revolutionAxis
            kept == SamplesToKeep(points, axis)
        IN  /\ Len(ret.validProfile) = Len(kept)
            /\ \A k \in 1..Len(kept) : ret.validProfile[k] = ImageOfSample(kept[k], axis)
            /\ axis = "z" => Len(ret.validProfile) = Len(points)

C25_Witness ==
    /\ call = "regenerateSurface"
    /\ state.revolutionAxis = "x"
    /\ points = <<[x |-> Num(16), y |-> Num(16)], [x |-> Num(21), y |-> Num(11)],
                  [x |-> Num(4), y |-> Num(22)]>>
    /\ ret.validProfile = <<[x |-> Num(5), y |-> Num(5)], [x |-> Num(6), y |-> Num(-12)]>>

\* C26: in Questao 02, under every interleaving of mousedown, mousemove,
\* mouseup and right-click on the 2D canvas, whenever state.isDragging is
\* true state.dragPointIndex is the index of a control point of the profile
\* (the one the drag started on), so a mousemove moves that point only.
C26_DragIndexValid ==
    state.isDragging =>
        /\ state.dragPointIndex >= 0
        /\ state.dragPointIndex < Len(points)

\* C28: in every state a sequence of ControlPointsManager operations
\* reaches, selectedPointIndex is -1 or the index of a point, and it is the
\* index of a point whenever isDragging is true.
C28_SelectionAndDragValid ==
    /\ manager.selectedPointIndex = -1 \/ ValidIndex(manager, manager.selectedPointIndex)
    /\ manager.isDragging => ValidIndex(manager, manager.selectedPointIndex)

---------------------------------------------------------------------------
(* Properties of the Questao 01 application with both tabs *)

C29_NoDragAfterRelease ==
    [][(TabMouseUp \/ TabMouseLeave) =>
           /\ ~state'.bezierManager.isDragging
           /\ ~state'.splineManager.isDragging]_vars

---------------------------------------------------------------------------
(* Properties of the Questao 02 3D renderer *)

ObjectsOfKind(kind) == {o \in state.scene : o.kind = kind}

\* C30: after every sequence of updateSurface and setViewMode calls the
\* scene holds at most one surface mesh and at most one wireframe overlay,
\* and while the last updateSurface was given null or an empty mesh the
\* scene holds no surface mesh, whatever view-mode changes came after it.
C30_SceneHoldsCurrentMesh ==
    /\ Cardinality(ObjectsOfKind("mesh")) <= 1
    /\ Cardinality(ObjectsOfKind("wireframe")) <= 1
    /\ (args # NoArgs /\ NoSurfaceData(args.surfaceData)) => ObjectsOfKind("mesh") = {}

===========================================================================
